---- MODULE Spec2Model ----
(***************************************************************************)
(* RescueRoute AI: the simulation engine of src/simulation/simulator.py.   *)
(* The world is a square grid with obstacles and charging stations, a      *)
(* fleet of robots and a list of prioritised missions.  One tick runs five *)
(* phases in order: assign, move, complete, battery/charging, mark dead.   *)
(***************************************************************************)
EXTENDS Integers, Sequences, FiniteSets, TLC

(***************************************************************************)
(* Program constants.                                                      *)
(***************************************************************************)
GRID_SIZE == 50
BATTERY_DRAIN_PER_MOVE == 2
BATTERY_CHARGE_PER_TICK == 10
LOW_BATTERY_THRESHOLD == 20
MIN_BATTERY_FOR_MISSION == 50
FULL_BATTERY == 100
NUM_ROBOTS == 5
MISSIONS_PER_PRIORITY == 5
NUM_OBSTACLES == 10

\* Optional[int] = None for ids and timestamps (ids and times start at 1).
None == 0
\* Optional[tuple] = None for charge_destination.
NoCell == <<>>

PRIORITY_SCORES(p) ==
    CASE p = "high" -> 3
      [] p = "medium" -> 2
      [] p = "low" -> 1
      [] OTHER -> 0

Priorities == <<"high", "medium", "low">>

\* charging_stations, in list order.
ChargingStations == << <<5, 5>>, <<45, 5>>, <<25, 45>> >>

StationPositions == {ChargingStations[i] : i \in 1..Len(ChargingStations)}

RobotIds == 1..NUM_ROBOTS
MissionIds == 1..(MISSIONS_PER_PRIORITY * Len(Priorities))

Abs(n) == IF n < 0 THEN -n ELSE n
Max(a, b) == IF a > b THEN a ELSE b
Min(a, b) == IF a < b THEN a ELSE b

Tail1(s) == IF Len(s) = 0 THEN <<>> ELSE Tail(s)

(***************************************************************************)
(* astar: A* with the Manhattan heuristic on the 4-connected grid.  The    *)
(* open heap holds tuples (f, g, node); heappop returns the least tuple in *)
(* lexicographic order.                                                    *)
(***************************************************************************)
\* Mutant of Heuristic: three times the Manhattan distance.
HeuristicTripled(a, b) == 3 * (Abs(a[1] - b[1]) + Abs(a[2] - b[2]))

Heuristic(a, b) == Abs(a[1] - b[1]) + Abs(a[2] - b[2])

Directions == << <<1, 0>>, <<-1, 0>>, <<0, 1>>, <<0, -1>> >>

InGrid(c) == 0 <= c[1] /\ c[1] < GRID_SIZE /\ 0 <= c[2] /\ c[2] < GRID_SIZE

HeapLeq(t, u) ==
    \/ t[1] < u[1]
    \/ /\ t[1] = u[1]
       /\ \/ t[2] < u[2]
          \/ /\ t[2] = u[2]
             /\ \/ t[3] < u[3]
                \/ (t[3] = u[3] /\ t[4] <= u[4])

HeapTop(heap) == CHOOSE t \in heap : \A u \in heap : HeapLeq(t, u)

\* One iteration of the walk back through came_from; w is [current, path].
ReconstructStep(came_from, w) ==
    IF w.current \in DOMAIN came_from
    THEN [current |-> came_from[w.current],
          path |-> <<came_from[w.current]>> \o w.path]
    ELSE w

\* 2^k iterations of the walk back (a fixed point once the start is reached).
RECURSIVE ReconstructIter(_, _, _)
ReconstructIter(came_from, w, k) ==
    IF ~(w.current \in DOMAIN came_from) THEN w
    ELSE IF k = 0 THEN ReconstructStep(came_from, w)
    ELSE ReconstructIter(came_from, ReconstructIter(came_from, w, k - 1), k - 1)

\* The loops of the search run at most 2^LoopLog iterations: more than the
\* heap entries a search of the GRID_SIZE x GRID_SIZE grid can push.
LoopLog == 14

ReconstructPath(came_from, goal) ==
    ReconstructIter(came_from, [current |-> goal, path |-> <<goal>>], LoopLog).path

\* Mutant of IsBlocked: the search walks through obstacle cells.
IsBlockedNever(cell, blocked) == FALSE

\* "if neighbor in blocked: continue"
IsBlocked(cell, blocked) == cell \in blocked

\* The loop over the four directions for one expanded node; st is the
\* search state [open, g_score, came_from, visited, done, path].
RECURSIVE ExpandNeighbors(_, _, _, _, _, _)
ExpandNeighbors(st, current, current_g, goal, blocked, d) ==
    IF d > Len(Directions) THEN st
    ELSE LET neighbor == <<current[1] + Directions[d][1], current[2] + Directions[d][2]>>
             tentative_g == current_g + 1
             known == neighbor \in DOMAIN st.g_score
         IN  IF ~InGrid(neighbor) \/ IsBlocked(neighbor, blocked)
             THEN ExpandNeighbors(st, current, current_g, goal, blocked, d + 1)
             ELSE IF known /\ ~(tentative_g < st.g_score[neighbor])
             THEN ExpandNeighbors(st, current, current_g, goal, blocked, d + 1)
             ELSE ExpandNeighbors(
                    [st EXCEPT
                       !.open = @ \cup {<<tentative_g + Heuristic(neighbor, goal),
                                          tentative_g, neighbor[1], neighbor[2]>>},
                       !.g_score = (neighbor :> tentative_g) @@ @,
                       !.came_from = (neighbor :> current) @@ @],
                    current, current_g, goal, blocked, d + 1)

\* One iteration of "while open_heap": pop, skip a visited node, return the
\* path at the goal, otherwise expand.
AstarStep(st, goal, blocked) ==
    IF st.done THEN st
    ELSE IF st.open = {} THEN [st EXCEPT !.done = TRUE, !.path = <<>>]
    ELSE LET top == HeapTop(st.open)
             current == <<top[3], top[4]>>
             popped == [st EXCEPT !.open = @ \ {top}]
         IN  IF current \in st.visited THEN popped
             ELSE IF current = goal
             THEN [popped EXCEPT !.done = TRUE,
                                 !.path = ReconstructPath(st.came_from, current)]
             ELSE ExpandNeighbors([popped EXCEPT !.visited = @ \cup {current}],
                                  current, top[2], goal, blocked, 1)

\* 2^k iterations of the search loop (a fixed point once done).
RECURSIVE AstarLoop(_, _, _, _)
AstarLoop(st, goal, blocked, k) ==
    IF st.done THEN st
    ELSE IF k = 0 THEN AstarStep(st, goal, blocked)
    ELSE AstarLoop(AstarLoop(st, goal, blocked, k - 1), goal, blocked, k - 1)

astar(start, goal, blocked) ==
    IF start = goal THEN <<start>>
    ELSE IF goal \in blocked THEN <<>>
    ELSE AstarLoop([open |-> {<<Heuristic(start, goal), 0, start[1], start[2]>>},
                    g_score |-> (start :> 0),
                    came_from |-> <<>>,
                    visited |-> {},
                    done |-> FALSE,
                    path |-> <<>>],
                   goal, blocked, LoopLog).path

(***************************************************************************)
(* The engine state.                                                       *)
(***************************************************************************)
VARIABLES
    robots,           \* engine.robots: id -> Robot
    missions,         \* engine.missions: id -> Mission
    blocked,          \* engine.blocked (the obstacle cells)
    completed_times,  \* engine.completed_times
    tick_count,       \* engine.tick_count; also the clock read by time.time()
    phase,            \* the phase of tick() that ran last (0: between ticks)
    first_start,      \* history: mission id -> the time it first became active
    moved_at_two      \* history: the robots that moved at battery 2 in this tick

\* The engine's client and the aggregator (src/backend/main.py).
VARIABLES
    engine_response,          \* the last response of GET /simulation/state
    current_state,            \* the published snapshot
    latest_simulator_metrics, \* the stored metric fields
    state_lock,               \* the aggregator's snapshot guard: the task holding it
    poller,                   \* _poll_simulation_forever: position and locals
    streams,                  \* stream id -> the emitter's position and locals
    state_response,           \* the last response of GET /api/v1/state
    missions_response,        \* the last response of GET /api/v1/missions
    decide                    \* get_ai_decision: position and what it read

\* A call of astar on its own: the arguments and the list returned.
VARIABLES
    search

engine_vars == <<robots, missions, blocked, completed_times, tick_count, phase,
                 first_start, moved_at_two>>

aggregator_vars == <<current_state, latest_simulator_metrics, state_lock, poller,
                     streams, state_response, missions_response, decide>>

vars == <<engine_vars, engine_response, aggregator_vars, search>>

\* What the poller, the emitters, GET /state and POST /update leave alone.
other_vars == <<search, missions_response, decide>>

\* Ticks per run explored by the model checker.
MaxTicks == 64

\* Robot.__init__
NewRobot(cell) ==
    [x |-> cell[1], y |-> cell[2], battery |-> FULL_BATTERY, status |-> "idle",
     mission_id |-> None, path |-> <<>>, total_distance_traveled |-> 0,
     charge_destination |-> NoCell]

\* Mission.__init__
NewMission(priority, cell) ==
    [priority |-> priority, target_x |-> cell[1], target_y |-> cell[2],
     status |-> "pending", assigned_robot |-> None, start_time |-> None,
     completion_time |-> None]

\* The priority of the mission created with this id: five per priority, in
\* the order high, medium, low.
PriorityOf(id) == Priorities[((id - 1) \div MISSIONS_PER_PRIORITY) + 1]

Cell(r) == <<r.x, r.y>>
Target(m) == <<m.target_x, m.target_y>>

(***************************************************************************)
(* _release_mission(robot): w is the record [robots, missions].            *)
(***************************************************************************)
\* Mutant of ReleasedMission: the release forgets to clear assigned_robot.
ReleasedMissionKeepsRobot(m) ==
    [m EXCEPT !.status = "pending", !.start_time = None]

ReleasedMission(m) ==
    [m EXCEPT !.status = "pending", !.assigned_robot = None, !.start_time = None]

_release_mission(w, r) ==
    LET mid == w.robots[r].mission_id
    IN  IF mid = None THEN w
        ELSE [robots |-> [w.robots EXCEPT ![r].mission_id = None],
              missions |-> IF mid \in DOMAIN w.missions /\ w.missions[mid].status = "active"
                           THEN [w.missions EXCEPT ![mid] = ReleasedMission(@)]
                           ELSE w.missions]

(***************************************************************************)
(* Phase 1: _assign_pending_missions.                                      *)
(***************************************************************************)
IdSeq(n) == [i \in 1..n |-> i]

\* Mutant of PendingWithScore: every mission that is not active is collected.
PendingWithScoreNotActive(ms, score) ==
    SelectSeq(IdSeq(Len(ms)),
              LAMBDA i : ms[i].status # "active" /\ PRIORITY_SCORES(ms[i].priority) = score)

PendingWithScore(ms, score) ==
    SelectSeq(IdSeq(Len(ms)),
              LAMBDA i : ms[i].status = "pending" /\ PRIORITY_SCORES(ms[i].priority) = score)

\* Mutant of SortedPending: the pending missions are sorted by ascending score.
SortedPendingAscending(ms) ==
    PendingWithScore(ms, 0) \o PendingWithScore(ms, 1)
        \o PendingWithScore(ms, 2) \o PendingWithScore(ms, 3)

\* pending.sort(key=score, reverse=True): stable, so list order within a score.
SortedPending(ms) ==
    PendingWithScore(ms, 3) \o PendingWithScore(ms, 2)
        \o PendingWithScore(ms, 1) \o PendingWithScore(ms, 0)

\* Mutant of CanTakeMission: an idle robot takes a mission whatever its battery.
CanTakeMissionAnyBattery(r) == r.status = "idle"

CanTakeMission(r) == r.status = "idle" /\ r.battery > MIN_BATTERY_FOR_MISSION

IdleRobots(rs) == {r \in DOMAIN rs : CanTakeMission(rs[r])}

Manhattan(a, b) == Abs(a[1] - b[1]) + Abs(a[2] - b[2])

\* Mutant of NearestRobot: of the robots at the least distance, the last one.
NearestRobotLast(rs, idle, target) ==
    CHOOSE r \in idle : \A q \in idle :
        \/ Manhattan(Cell(rs[r]), target) < Manhattan(Cell(rs[q]), target)
        \/ (Manhattan(Cell(rs[r]), target) = Manhattan(Cell(rs[q]), target) /\ r >= q)

\* min(idle_robots, key=distance): the first robot of least distance.
NearestRobot(rs, idle, target) ==
    CHOOSE r \in idle : \A q \in idle :
        \/ Manhattan(Cell(rs[r]), target) < Manhattan(Cell(rs[q]), target)
        \/ (Manhattan(Cell(rs[r]), target) = Manhattan(Cell(rs[q]), target) /\ r <= q)

\* mission.start_time = mission.start_time or time.time()
StartTime(m, now) == IF m.start_time # None THEN m.start_time ELSE now

\* Mutant of AssignedRobot: the robot keeps the whole route, its own cell included.
AssignedRobotWholePath(r, mid, path) ==
    [r EXCEPT !.path = path, !.status = "moving", !.mission_id = mid,
              !.charge_destination = NoCell]

AssignedRobot(r, mid, path) ==
    [r EXCEPT !.path = Tail1(path), !.status = "moving", !.mission_id = mid,
              !.charge_destination = NoCell]

AssignedMission(m, rid, now) ==
    [m EXCEPT !.status = "active", !.assigned_robot = rid, !.start_time = StartTime(m, now)]

\* Mutant of AfterUnreachable: the loop ends at a mission without a path.
AfterUnreachableReturn(pending, k) == Len(pending) + 1

\* "continue" after a mission without a path: on to the next position.
AfterUnreachable(pending, k) == k + 1

\* The loop "for mission in pending" from position k on; "return" when no
\* robot can take a mission, "continue" when the mission is unreachable.
RECURSIVE AssignLoop(_, _, _, _, _)
AssignLoop(w, pending, k, blk, now) ==
    IF k > Len(pending) THEN w
    ELSE LET mid == pending[k]
             idle == IdleRobots(w.robots)
         IN  IF idle = {} THEN w
             ELSE LET nearest == NearestRobot(w.robots, idle, Target(w.missions[mid]))
                      path == astar(Cell(w.robots[nearest]), Target(w.missions[mid]), blk)
                  IN  IF path = <<>>
                      THEN AssignLoop(w, pending, AfterUnreachable(pending, k), blk, now)
                      ELSE AssignLoop(
                             [robots |-> [w.robots EXCEPT ![nearest] =
                                              AssignedRobot(@, mid, path)],
                              missions |-> [w.missions EXCEPT ![mid] =
                                              AssignedMission(@, nearest, now)]],
                             pending, k + 1, blk, now)

_assign_pending_missions(w, blk, now) ==
    AssignLoop(w, SortedPending(w.missions), 1, blk, now)

(***************************************************************************)
(* Phase 2: _move_robots_one_step.                                         *)
(***************************************************************************)
DrainBattery(b) == Max(0, b - BATTERY_DRAIN_PER_MOVE)

ArrivedStatus(r) ==
    IF r.charge_destination # NoCell /\ Cell(r) = r.charge_destination
    THEN "charging" ELSE "idle"

\* The robot pops the head of its path in this phase.
Moves(r) == r.status = "moving" /\ r.path # <<>>

\* Mutant of MoveRobot: a move is not counted in total_distance_traveled.
MoveRobotUncounted(r) ==
    IF r.status # "moving" THEN r
    ELSE IF r.path = <<>> THEN [r EXCEPT !.status = ArrivedStatus(r)]
    ELSE [r EXCEPT !.x = Head(r.path)[1], !.y = Head(r.path)[2],
                   !.path = Tail(r.path),
                   !.battery = DrainBattery(r.battery)]

MoveRobot(r) ==
    IF r.status # "moving" THEN r
    ELSE IF r.path = <<>> THEN [r EXCEPT !.status = ArrivedStatus(r)]
    ELSE [r EXCEPT !.x = Head(r.path)[1], !.y = Head(r.path)[2],
                   !.path = Tail(r.path),
                   !.battery = DrainBattery(r.battery),
                   !.total_distance_traveled = @ + 1]

_move_robots_one_step(rs) == [r \in DOMAIN rs |-> MoveRobot(rs[r])]

(***************************************************************************)
(* Phase 3: _process_mission_completion; w is [robots, missions,           *)
(* completed_times].                                                       *)
(***************************************************************************)
\* Mutant of IsDead: the phases do not skip dead robots.
IsDeadNever(r) == FALSE

\* "if robot.status == 'dead': continue" of phases 3, 4 and 5.
IsDead(r) == r.status = "dead"

AtTarget(r, m) == r.x = m.target_x /\ r.y = m.target_y

CompletesMission(r, m) == AtTarget(r, m) /\ r.path = <<>>

CompleteRobot(w, r, now) ==
    LET robot == w.robots[r]
        mid == robot.mission_id
    IN  IF IsDead(robot) \/ mid = None THEN w
        ELSE IF ~(mid \in DOMAIN w.missions) \/ w.missions[mid].status # "active" THEN w
        ELSE IF ~CompletesMission(robot, w.missions[mid]) THEN w
        ELSE [robots |-> [w.robots EXCEPT ![r].mission_id = None,
                                          ![r].path = <<>>,
                                          ![r].status = "idle"],
              missions |-> [w.missions EXCEPT ![mid].status = "completed",
                                              ![mid].completion_time = now],
              completed_times |->
                  IF w.missions[mid].start_time # None
                  THEN Append(w.completed_times, now - w.missions[mid].start_time)
                  ELSE w.completed_times]

RECURSIVE CompletionLoop(_, _, _)
CompletionLoop(w, r, now) ==
    IF r > Len(w.robots) THEN w
    ELSE CompletionLoop(CompleteRobot(w, r, now), r + 1, now)

_process_mission_completion(w, now) == CompletionLoop(w, 1, now)

(***************************************************************************)
(* Phase 4: _manage_battery_and_charging; w is [robots, missions].         *)
(***************************************************************************)
\* Mutant of ChargeBattery: the charge is not capped.
ChargeBatteryUncapped(b) == b + BATTERY_CHARGE_PER_TICK

ChargeBattery(b) == Min(FULL_BATTERY, b + BATTERY_CHARGE_PER_TICK)

AtStation(r) == Cell(r) \in StationPositions

\* The first branch: a robot on a station with battery < 100.
\* Mutant of FullyCharged: a battery at exactly 100 does not count as full.
FullyChargedStrict(b) == b > FULL_BATTERY

FullyCharged(b) == b >= FULL_BATTERY

ChargeRobot(r) ==
    LET b == ChargeBattery(r.battery)
    IN  IF FullyCharged(b)
        THEN [r EXCEPT !.battery = b, !.path = <<>>, !.status = "idle",
                       !.charge_destination = NoCell]
        ELSE [r EXCEPT !.battery = b, !.path = <<>>, !.status = "charging",
                       !.charge_destination = Cell(r)]

\* Mutant of NearestStation: the first station of the list, whatever its distance.
NearestStationFirst(cell) == ChargingStations[1]

\* min(stations, key=distance): the first station of least distance.
NearestStation(cell) ==
    ChargingStations[
        CHOOSE i \in 1..Len(ChargingStations) : \A j \in 1..Len(ChargingStations) :
            \/ Manhattan(ChargingStations[i], cell) < Manhattan(ChargingStations[j], cell)
            \/ (Manhattan(ChargingStations[i], cell) = Manhattan(ChargingStations[j], cell)
                /\ i <= j)]

NeedsCharger(r) == r.battery < LOW_BATTERY_THRESHOLD /\ ~AtStation(r)

\* The second branch: route a low robot to the nearest station, or mark it
\* dead when astar finds no route.
RouteToCharger(r, blk) ==
    LET station == NearestStation(Cell(r))
        path == astar(Cell(r), station, blk)
    IN  IF path # <<>>
        THEN [r EXCEPT !.path = Tail1(path), !.charge_destination = station,
                       !.status = "moving"]
        ELSE [r EXCEPT !.status = "dead", !.path = <<>>]

BatteryRobot(w, r, blk) ==
    LET robot == w.robots[r]
    IN  IF IsDead(robot) THEN w
        ELSE IF AtStation(robot) /\ robot.battery < FULL_BATTERY
        THEN [w EXCEPT !.robots[r] = ChargeRobot(robot)]
        ELSE IF NeedsCharger(robot)
        THEN LET released == _release_mission(w, r)
             IN  [released EXCEPT !.robots[r] = RouteToCharger(released.robots[r], blk)]
        ELSE w

RECURSIVE BatteryLoop(_, _, _)
BatteryLoop(w, r, blk) ==
    IF r > Len(w.robots) THEN w
    ELSE BatteryLoop(BatteryRobot(w, r, blk), r + 1, blk)

_manage_battery_and_charging(w, blk) == BatteryLoop(w, 1, blk)

(***************************************************************************)
(* Phase 5: _mark_dead_robots; w is [robots, missions].                    *)
(***************************************************************************)
\* Mutant of Depleted: a battery at exactly 0 does not count as depleted.
DepletedStrict(r) == r.battery < 0

Depleted(r) == r.battery <= 0

\* Mutant of DeadRobot: the path of a depleted robot is not cleared.
DeadRobotKeepsPath(r) == [r EXCEPT !.status = "dead", !.charge_destination = NoCell]

DeadRobot(r) == [r EXCEPT !.status = "dead", !.path = <<>>, !.charge_destination = NoCell]

MarkRobot(w, r) ==
    IF IsDead(w.robots[r]) THEN w
    ELSE IF Depleted(w.robots[r])
    THEN LET released == _release_mission(w, r)
         IN  [released EXCEPT !.robots[r] = DeadRobot(released.robots[r])]
    ELSE w

RECURSIVE MarkLoop(_, _)
MarkLoop(w, r) ==
    IF r > Len(w.robots) THEN w
    ELSE MarkLoop(MarkRobot(w, r), r + 1)

_mark_dead_robots(w) == MarkLoop(w, 1)

(***************************************************************************)
(* The aggregator at start-up (module level of src/backend/main.py).       *)
(***************************************************************************)
SIM_GRID_SIZE == 50

\* Streaming clients.
NumStreams == 1

Streams == 1..NumStreams

\* current_state as the module creates it.
EmptyState ==
    [step |-> 0, robots |-> <<>>,
     grid |-> [width |-> SIM_GRID_SIZE, height |-> SIM_GRID_SIZE,
               obstacles |-> {}, charging_stations |-> <<>>],
     active_missions |-> <<>>, completed_missions |-> <<>>]

ZeroMetrics == [avg_completion_time |-> 0, total_distance_traveled |-> 0]

\* asyncio.Lock(): not held.
Unlocked == [holder |-> "none", id |-> 0]

\* The poller task as lifespan creates it: step = 0, about to fetch. The local
\* payload is kept by its type: "unset", "None", "dict" or "list".
NewPoller ==
    [pc |-> "fetch", step |-> 0, payload |-> "unset", converted |-> EmptyState,
     metrics |-> ZeroMetrics]

\* No request on the stream yet.
NoStream == [pc |-> "closed", disconnected |-> FALSE, payload |-> [json |-> EmptyState]]

\* No response of GET /simulation/state yet.
NoSnapshot ==
    [robots |-> <<>>, missions |-> <<>>, obstacles |-> {}, charging_stations |-> <<>>,
     metrics |-> [active_robots |-> 0, completed_missions |-> 0, pending_missions |-> 0,
                  total_distance_traveled |-> 0, avg_completion_time |-> 0],
     timestamp |-> 0]

\* No request of POST /api/v1/ai/decide yet.
NoDecision ==
    [pc |-> "none", checked |-> EmptyState, forwarded |-> EmptyState,
     logged |-> [written |-> FALSE, step |-> 0]]

\* No call of astar on its own.
NoSearch == [start |-> <<0, 0>>, goal |-> <<0, 0>>, blocked |-> {}, called |-> FALSE, path |-> <<>>]

AggregatorInit ==
    /\ engine_response = NoSnapshot
    /\ current_state = EmptyState
    /\ latest_simulator_metrics = ZeroMetrics
    /\ state_lock = Unlocked
    /\ poller = NewPoller
    /\ streams = [c \in Streams |-> NoStream]
    /\ state_response = [served |-> FALSE, body |-> EmptyState]
    /\ missions_response = [served |-> FALSE, body |-> <<>>]
    /\ decide = NoDecision
    /\ search = NoSearch

(***************************************************************************)
(* reset(): the random draws of reset are taken from the layouts below.    *)
(***************************************************************************)
\* Obstacle draws (obstacle_positions).
ObstacleLayouts == {
    {<<2,37>>, <<3,5>>, <<5,23>>, <<10,47>>, <<13,38>>,
     <<16,38>>, <<25,46>>, <<27,40>>, <<42,19>>, <<43,10>>},
    {<<0,1>>, <<1,0>>, <<4,5>>, <<5,4>>, <<5,6>>,
     <<6,5>>, <<8,36>>, <<13,6>>, <<16,7>>, <<24,27>>},
    \* a draw with a station among the candidates, which the loop throws away
    {<<7,7>>, <<45,5>>, <<5,24>>, <<10,48>>, <<13,39>>,
     <<16,39>>, <<25,47>>, <<27,41>>, <<42,20>>, <<43,11>>} }

\* Robot start cells, by robot id.
RobotPlacements == {
    << <<10,45>>, <<28,46>>, <<27,10>>, <<10,15>>, <<3,7>> >>,
    << <<35,30>>, <<25,40>>, <<9,14>>, <<40,9>>, <<0,0>> >>,
    \* a draw with a station among the candidates, which _random_free_cell throws away
    << <<5,5>>, <<25,40>>, <<9,14>>, <<40,9>>, <<0,0>> >> }

\* Mission targets, by mission id.
MissionPlacements == {
    << <<1,1>>, <<1,41>>, <<34,0>>, <<24,43>>, <<13,27>>,
       <<46,1>>, <<33,14>>, <<48,28>>, <<31,35>>, <<14,22>>,
       <<14,43>>, <<14,48>>, <<29,18>>, <<1,26>>, <<35,41>> >>,
    << <<47,0>>, <<42,49>>, <<4,10>>, <<48,37>>, <<2,19>>,
       <<49,1>>, <<17,30>>, <<38,46>>, <<24,45>>, <<27,25>>,
       <<46,36>>, <<28,8>>, <<23,6>>, <<2,8>>, <<31,13>> >>,
    \* a draw with a station among the candidates, which _random_free_cell throws away
    << <<47,1>>, <<42,49>>, <<4,10>>, <<48,37>>, <<2,19>>,
       <<49,1>>, <<17,30>>, <<38,46>>, <<24,45>>, <<27,25>>,
       <<46,36>>, <<28,8>>, <<25,45>>, <<2,8>>, <<31,13>> >> }

\* Mutant of FreeCell: a charging station counts as a free cell.
FreeCellOnStation(cell, blk) == InGrid(cell) /\ cell \notin blk

\* _random_free_cell: a cell that is neither blocked nor a station.
FreeCell(cell, blk) == InGrid(cell) /\ cell \notin blk /\ cell \notin StationPositions

\* The obstacle draw: NUM_OBSTACLES distinct cells, none a station.
ValidObstacles(obs) ==
    /\ Cardinality(obs) = NUM_OBSTACLES
    /\ \A c \in obs : InGrid(c) /\ c \notin StationPositions

ResetOutcome(obs, starts, targets) ==
    /\ ValidObstacles(obs)
    /\ Len(starts) = NUM_ROBOTS
    /\ Len(targets) = MISSIONS_PER_PRIORITY * Len(Priorities)
    /\ \A i \in 1..Len(starts) : FreeCell(starts[i], obs)
    /\ \A i \in 1..Len(targets) : FreeCell(targets[i], obs)

Init ==
    \E obs \in ObstacleLayouts, starts \in RobotPlacements, targets \in MissionPlacements :
        /\ ResetOutcome(obs, starts, targets)
        /\ blocked = obs
        /\ robots = [r \in RobotIds |-> NewRobot(starts[r])]
        /\ missions = [m \in MissionIds |-> NewMission(PriorityOf(m), targets[m])]
        /\ completed_times = <<>>
        /\ tick_count = 0
        /\ phase = 0
        /\ first_start = [m \in MissionIds |-> None]
        /\ moved_at_two = {}
        /\ AggregatorInit

\* Mutant of EngineLockFree: the handlers do not wait for the engine's lock.
EngineLockIgnored == TRUE

\* The engine's state_lock is free: simulation_loop holds it from phase 1 to
\* phase 5 of a tick.
EngineLockFree == phase = 0

\* reset() under state_lock: never between two phases of a tick.
Reset ==
    /\ EngineLockFree
    /\ \E obs \in ObstacleLayouts, starts \in RobotPlacements, targets \in MissionPlacements :
        /\ ResetOutcome(obs, starts, targets)
        /\ blocked' = obs
        /\ robots' = [r \in RobotIds |-> NewRobot(starts[r])]
        /\ missions' = [m \in MissionIds |-> NewMission(PriorityOf(m), targets[m])]
    /\ completed_times' = <<>>
    /\ tick_count' = 0
    /\ phase' = 0
    /\ first_start' = [m \in MissionIds |-> None]
    /\ moved_at_two' = {}
    /\ UNCHANGED <<engine_response, aggregator_vars, search>>

(***************************************************************************)
(* tick(): the five phases, in order.                                      *)
(***************************************************************************)
AssignPendingMissions ==
    /\ phase = 0
    /\ tick_count < MaxTicks
    /\ tick_count' = tick_count + 1
    /\ LET w == _assign_pending_missions([robots |-> robots, missions |-> missions],
                                         blocked, tick_count + 1)
       IN  /\ robots' = w.robots
           /\ missions' = w.missions
           /\ first_start' = [m \in MissionIds |->
                                IF first_start[m] = None /\ w.missions[m].status = "active"
                                THEN tick_count + 1 ELSE first_start[m]]
    /\ phase' = 1
    /\ moved_at_two' = {}
    /\ UNCHANGED <<blocked, completed_times, engine_response, aggregator_vars, search>>

MoveRobotsOneStep ==
    /\ phase = 1
    /\ robots' = _move_robots_one_step(robots)
    /\ phase' = 2
    /\ moved_at_two' = {r \in RobotIds : Moves(robots[r]) /\ robots[r].battery = 2}
    /\ UNCHANGED <<missions, blocked, completed_times, tick_count, first_start,
                   engine_response, aggregator_vars, search>>

ProcessMissionCompletion ==
    /\ phase = 2
    /\ LET w == _process_mission_completion(
                    [robots |-> robots, missions |-> missions,
                     completed_times |-> completed_times], tick_count)
       IN  /\ robots' = w.robots
           /\ missions' = w.missions
           /\ completed_times' = w.completed_times
    /\ phase' = 3
    /\ UNCHANGED <<blocked, tick_count, first_start, moved_at_two,
                   engine_response, aggregator_vars, search>>

ManageBatteryAndCharging ==
    /\ phase = 3
    /\ LET w == _manage_battery_and_charging([robots |-> robots, missions |-> missions],
                                             blocked)
       IN  robots' = w.robots /\ missions' = w.missions
    /\ phase' = 4
    /\ UNCHANGED <<blocked, completed_times, tick_count, first_start, moved_at_two,
                   engine_response, aggregator_vars, search>>

MarkDeadRobots ==
    /\ phase = 4
    /\ LET w == _mark_dead_robots([robots |-> robots, missions |-> missions])
       IN  robots' = w.robots /\ missions' = w.missions
    /\ phase' = 0
    /\ UNCHANGED <<blocked, completed_times, tick_count, first_start, moved_at_two,
                   engine_response, aggregator_vars, search>>

Next ==
    \/ AssignPendingMissions
    \/ MoveRobotsOneStep
    \/ ProcessMissionCompletion
    \/ ManageBatteryAndCharging
    \/ MarkDeadRobots
    \/ Reset

Spec == Init /\ [][Next]_vars

(***************************************************************************)
(* Properties.                                                             *)
(***************************************************************************)
\* A step of a tick phase (reset() is the only step that leaves tick_count 0).
TickStep == tick_count' # 0

Holders(m) == {r \in RobotIds : robots[r].mission_id = m}

\* C1: every active mission is the mission_id of exactly one robot, and every
\* robot with a mission_id refers to an active mission assigned to that robot.
C1_MissionRobotBijection ==
    /\ \A m \in MissionIds :
           missions[m].status = "active" => Cardinality(Holders(m)) = 1
    /\ \A r \in RobotIds :
           robots[r].mission_id # None =>
               /\ missions[robots[r].mission_id].status = "active"
               /\ missions[robots[r].mission_id].assigned_robot = r

\* C2: every robot's battery is within [0, 100] after reset and after every
\* phase of every tick.
C2_BatteryInRange ==
    \A r \in RobotIds : 0 <= robots[r].battery /\ robots[r].battery <= FULL_BATTERY

\* C2 witness: a robot drained to 0 by its moves, while another one was
\* charged up to the cap on a station it travelled to.
C2_Witness ==
    /\ \E r \in RobotIds : robots[r].battery = 0 /\ robots[r].total_distance_traveled > 0
    /\ \E r \in RobotIds : /\ robots[r].battery = FULL_BATTERY
                           /\ AtStation(robots[r])
                           /\ robots[r].total_distance_traveled > 0

Adjacent(a, b) == Manhattan(a, b) = 1

\* No robot stands on an obstacle cell and no pending path holds an obstacle
\* cell or a cell outside the grid.
C3_NoObstacleCells ==
    \A r \in RobotIds :
        /\ Cell(robots[r]) \notin blocked
        /\ \A i \in 1..Len(robots[r].path) :
               robots[r].path[i] \notin blocked /\ InGrid(robots[r].path[i])

\* Every move of a robot in a tick goes to a cell 4-adjacent to its cell.
C3_AdjacentMoves ==
    \A r \in RobotIds :
        (TickStep /\ Cell(robots'[r]) # Cell(robots[r]))
            => Adjacent(Cell(robots[r]), Cell(robots'[r]))

\* C3: the obstacle-free invariant in every state, and adjacent moves in every
\* step of a tick.
C3_ObstacleFree == [](C3_NoObstacleCells) /\ [][C3_AdjacentMoves]_vars

\* C3 witness: a travelling robot stands next to an obstacle cell with more
\* of its path ahead.
C3_Witness ==
    \E r \in RobotIds :
        /\ robots[r].status = "moving"
        /\ robots[r].total_distance_traveled > 0
        /\ robots[r].path # <<>>
        /\ \E c \in blocked : Adjacent(c, Cell(robots[r]))

\* C4 as claimed: a mission's assigned_robot is set if and only if the mission
\* is active.
C4_AssignedIffActive ==
    \A m \in MissionIds :
        (missions[m].assigned_robot # None) <=> (missions[m].status = "active")

\* C4, amended: assigned_robot is set if and only if the mission is active
\* or completed; a completed mission keeps the robot that completed it.
C4_AssignedIffNotPending ==
    \A m \in MissionIds :
        (missions[m].assigned_robot # None) <=> (missions[m].status # "pending")

\* C4 witness: a mission released back to pending, beside an active and a
\* completed one.
C4_Witness ==
    /\ \E m \in MissionIds : missions[m].status = "pending" /\ first_start[m] # None
    /\ \E m \in MissionIds : missions[m].status = "active"
    /\ \E m \in MissionIds : missions[m].status = "completed"

\* C5: a dead robot has an empty path and no mission.
C5_DeadRobotIsCleared ==
    \A r \in RobotIds :
        robots[r].status = "dead" =>
            robots[r].path = <<>> /\ robots[r].mission_id = None

\* C5 witness: one robot died in phase 4 (no route to the charger: battery
\* left) and another one in phase 5 (battery depleted).
C5_Witness ==
    /\ \E r \in RobotIds : robots[r].status = "dead" /\ robots[r].battery > 0
    /\ \E r \in RobotIds : robots[r].status = "dead" /\ robots[r].battery = 0

RobotTransitions ==
    { <<"idle", "moving">>, <<"moving", "idle">>, <<"moving", "charging">>,
      <<"charging", "idle">>, <<"idle", "dead">>, <<"moving", "dead">>,
      <<"charging", "dead">> }

\* One step of a tick, for every robot: an allowed status change or none, and
\* nothing changes on a dead robot.
C6_RobotStep ==
    TickStep =>
        \A r \in RobotIds :
            /\ robots'[r].status # robots[r].status =>
                   <<robots[r].status, robots'[r].status>> \in RobotTransitions
            /\ robots[r].status = "dead" =>
                   /\ robots'[r].status = "dead"
                   /\ Cell(robots'[r]) = Cell(robots[r])
                   /\ robots'[r].battery = robots[r].battery
                   /\ robots'[r].mission_id = robots[r].mission_id

\* C6: every status change a tick phase applies to a robot is a transition of
\* the robot state machine (never idle to charging, never charging to moving),
\* and a dead robot keeps its status, position, battery and mission until
\* reset.
C6_RobotStateMachine == [][C6_RobotStep]_vars

\* C6 witness: a dead robot beside a charging one, after phase 4 ran on both.
C6_Witness ==
    /\ phase = 4
    /\ \E r \in RobotIds : robots[r].status = "dead"
    /\ \E r \in RobotIds : robots[r].status = "charging"

\* One step of a tick, for every mission: an allowed status change or none.
C7_MissionStep ==
    TickStep =>
        \A m \in MissionIds :
            missions'[m].status # missions[m].status =>
                \/ missions[m].status = "pending" /\ missions'[m].status = "active"
                \/ missions[m].status = "active" /\ missions'[m].status = "completed"
                \/ /\ missions[m].status = "active"
                   /\ missions'[m].status = "pending"
                   /\ missions[m].assigned_robot \in RobotIds
                   /\ robots[missions[m].assigned_robot].mission_id = m
                   /\ robots'[missions[m].assigned_robot].mission_id = None

\* C7: every status change of a mission is pending to active, active to
\* completed, or active to pending on release by its assigned robot; a
\* completed mission never changes status until reset.
C7_MissionStateMachine == [][C7_MissionStep]_vars

\* C7 witness: a mission that was released and assigned again stands beside a
\* completed one.
C7_Witness ==
    /\ \E m \in MissionIds : /\ missions[m].status = "active"
                             /\ missions[m].start_time # first_start[m]
    /\ \E m \in MissionIds : missions[m].status = "completed"

\* C8: a mission's start_time is the time at which it first became active,
\* also after a release and a later assignment.
C8_StartTimeIsFirstActivation ==
    \A m \in MissionIds :
        missions[m].start_time # None => missions[m].start_time = first_start[m]

\* C9 as claimed: a robot that moves at battery 2 has battery 0 after the move and is
\* dead at the end of the same tick, whatever cell it moved onto.
C9_MovedAtTwoDies ==
    \A r \in moved_at_two :
        /\ phase = 2 => robots[r].battery = 0
        /\ phase = 0 => robots[r].status = "dead"

\* C9, amended: a robot that moves at battery 2 has battery 0 after the move and is dead at the end of the same tick unless the cell it
\* moved onto is a charging station; there phase 4 charges it and it ends the
\* tick charging with battery 10.
C9_MovedAtTwoDiesOffStation ==
    \A r \in moved_at_two :
        /\ phase = 2 => robots[r].battery = 0
        /\ phase = 0 =>
               IF AtStation(robots[r])
               THEN /\ robots[r].status = "charging"
                    /\ robots[r].battery = BATTERY_CHARGE_PER_TICK
               ELSE robots[r].status = "dead" /\ robots[r].battery = 0

\* C9 witness: the tick has ended on a robot that moved at battery 2 onto a
\* cell that is no station.
C9_Witness ==
    /\ phase = 0
    /\ \E r \in moved_at_two : ~AtStation(robots[r])

\* The robot is alive on a station with 90 <= battery < 100.
NearlyFull(r) ==
    /\ r.status # "dead"
    /\ AtStation(r)
    /\ FULL_BATTERY - BATTERY_CHARGE_PER_TICK <= r.battery
    /\ r.battery < FULL_BATTERY

\* The phase-4 step, for every robot that is nearly full; and phase 5 of the
\* same tick leaves a full robot on a station as phase 4 left it.
C10_ChargeStep ==
    /\ (phase = 3 /\ phase' = 4) =>
           \A r \in RobotIds :
               NearlyFull(robots[r]) =>
                   /\ robots'[r].battery = FULL_BATTERY
                   /\ robots'[r].status = "idle"
                   /\ robots'[r].charge_destination = NoCell
    /\ (phase = 4 /\ phase' = 0) =>
           \A r \in RobotIds :
               (AtStation(robots[r]) /\ robots[r].battery = FULL_BATTERY) =>
                   robots'[r] = robots[r]

\* C10: one phase-4 step on a live robot on a station with 90 <= battery <
\* 100 sets the battery to 100 and leaves the robot idle with
\* charge_destination cleared.
C10_ChargeToFull == [][C10_ChargeStep]_vars

\* C10 witness: phase 4 is about to run on such a robot.
C10_Witness ==
    /\ phase = 3
    /\ \E r \in RobotIds : NearlyFull(robots[r])

\* The robot is alive, off every station, with battery < 20: the robots that
\* the second branch of phase 4 handles.
LowOffStation(r) == ~IsDead(r) /\ NeedsCharger(r)

\* A station of least Manhattan distance to the cell.
IsNearestStation(s, cell) ==
    /\ s \in StationPositions
    /\ \A t \in StationPositions : Manhattan(s, cell) <= Manhattan(t, cell)

\* The phase-4 step, for every low robot off the stations.
C11_LowStep ==
    (phase = 3 /\ phase' = 4) =>
        \A r \in RobotIds :
            LowOffStation(robots[r]) =>
                LET mid == robots[r].mission_id
                    old == robots[r]
                    new == robots'[r]
                IN  /\ new.mission_id = None
                    /\ (mid # None /\ missions[mid].status = "active") =>
                           /\ missions'[mid].status = "pending"
                           /\ missions'[mid].assigned_robot = None
                    /\ \/ /\ new.status = "moving"
                          /\ IsNearestStation(new.charge_destination, Cell(old))
                          /\ astar(Cell(old), new.charge_destination, blocked) # <<>>
                          /\ new.path = Tail(astar(Cell(old), new.charge_destination, blocked))
                       \/ /\ new.status = "dead"
                          /\ new.path = <<>>
                          /\ \E s \in StationPositions :
                                 /\ IsNearestStation(s, Cell(old))
                                 /\ astar(Cell(old), s, blocked) = <<>>

\* C11: phase 4 on a live robot off the stations with battery < 20 releases
\* its mission (an active one is pending with no assigned robot, mission_id is
\* null) and leaves the robot moving to the Manhattan-nearest station along the
\* A* route tail, or dead with an empty path when A* finds no route to it.
C11_LowBatteryRouting == [][C11_LowStep]_vars

\* C11 witness: phase 4 has just sent one low robot to a charger and released
\* the mission it carried, and found no route for another robot.
C11_Witness ==
    /\ phase = 4
    /\ \E r \in RobotIds :
           /\ robots[r].status = "moving"
           /\ robots[r].charge_destination # NoCell
           /\ robots[r].battery < LOW_BATTERY_THRESHOLD
           /\ Len(robots[r].path) + 1 = Len(astar(Cell(robots[r]), robots[r].charge_destination, blocked))
    /\ \E r \in RobotIds :
           /\ robots[r].status = "dead"
           /\ robots[r].battery > 0
    /\ \E m \in MissionIds : missions[m].status = "pending" /\ first_start[m] # None

(***************************************************************************)
(* The first tick after reset(), over more reset outcomes: the nearest     *)
(* robot stands on the first mission's target, one step from it, or next   *)
(* to a station that its route crosses.                                    *)
(***************************************************************************)
FirstTickRobotPlacements ==
    RobotPlacements \cup
        { << <<24,45>>, <<30,30>>, <<12,12>>, <<40,40>>, <<20,5>> >> }

FirstTickMissionPlacements ==
    MissionPlacements \cup
        { << <<26,45>>, <<1,41>>, <<34,0>>, <<24,43>>, <<13,27>>,
             <<46,1>>, <<33,14>>, <<48,28>>, <<31,35>>, <<14,22>>,
             <<14,43>>, <<14,48>>, <<29,18>>, <<1,26>>, <<35,41>> >>,
          << <<24,45>>, <<1,41>>, <<34,0>>, <<24,43>>, <<13,27>>,
             <<46,1>>, <<33,14>>, <<48,28>>, <<31,35>>, <<14,22>>,
             <<14,43>>, <<14,48>>, <<29,18>>, <<1,26>>, <<35,41>> >>,
          << <<24,44>>, <<1,41>>, <<34,0>>, <<24,43>>, <<13,27>>,
             <<46,1>>, <<33,14>>, <<48,28>>, <<31,35>>, <<14,22>>,
             <<14,43>>, <<14,48>>, <<29,18>>, <<1,26>>, <<35,41>> >> }

InitFirstTick ==
    \E obs \in ObstacleLayouts, starts \in FirstTickRobotPlacements,
       targets \in FirstTickMissionPlacements :
        /\ ResetOutcome(obs, starts, targets)
        /\ blocked = obs
        /\ robots = [r \in RobotIds |-> NewRobot(starts[r])]
        /\ missions = [m \in MissionIds |-> NewMission(PriorityOf(m), targets[m])]
        /\ completed_times = <<>>
        /\ tick_count = 0
        /\ phase = 0
        /\ first_start = [m \in MissionIds |-> None]
        /\ moved_at_two = {}
        /\ AggregatorInit

ResetFirstTick ==
    /\ EngineLockFree
    /\ \E obs \in ObstacleLayouts, starts \in FirstTickRobotPlacements,
          targets \in FirstTickMissionPlacements :
        /\ ResetOutcome(obs, starts, targets)
        /\ blocked' = obs
        /\ robots' = [r \in RobotIds |-> NewRobot(starts[r])]
        /\ missions' = [m \in MissionIds |-> NewMission(PriorityOf(m), targets[m])]
    /\ completed_times' = <<>>
    /\ tick_count' = 0
    /\ phase' = 0
    /\ first_start' = [m \in MissionIds |-> None]
    /\ moved_at_two' = {}
    /\ UNCHANGED <<engine_response, aggregator_vars, search>>

\* Phase 1 of the first tick after reset().
FirstAssignPendingMissions == tick_count = 0 /\ AssignPendingMissions

NextFirstTick ==
    \/ FirstAssignPendingMissions
    \/ MoveRobotsOneStep
    \/ ProcessMissionCompletion
    \/ ManageBatteryAndCharging
    \/ MarkDeadRobots
    \/ ResetFirstTick

SpecFirstTick == InitFirstTick /\ [][NextFirstTick]_vars

\* The first mission in priority order: the first of the high missions.
FirstMission == 1

\* The robot of least Manhattan distance to the target, the lowest id on ties.
IsNearestRobot(n, target) ==
    \A q \in RobotIds :
        \/ Manhattan(Cell(robots[n]), target) < Manhattan(Cell(robots[q]), target)
        \/ (Manhattan(Cell(robots[n]), target) = Manhattan(Cell(robots[q]), target)
            /\ n <= q)

\* C12 as claimed: one tick after reset the first mission is active and its
\* robot's pending path is what is left of an A* route to the target (as long
\* as the A* route from the robot's cell, and ending on the target).
C12_FirstMissionActive ==
    (phase = 0 /\ tick_count = 1) =>
        /\ missions[FirstMission].status = "active"
        /\ LET r == robots[missions[FirstMission].assigned_robot]
               target == Target(missions[FirstMission])
           IN  /\ Len(r.path) + 1 = Len(astar(Cell(r), target, blocked))
               /\ r.path # <<>> => r.path[Len(r.path)] = target

\* The steps of the first tick, followed on the first mission and its robot.
C12_FirstTickStep ==
    LET target == Target(missions[FirstMission])
        r == missions[FirstMission].assigned_robot
        active == tick_count = 1 /\ missions[FirstMission].status = "active"
    IN  /\ (tick_count = 0 /\ tick_count' = 1) =>
              \A n \in RobotIds :
                  IsNearestRobot(n, target) =>
                      LET route == astar(Cell(robots[n]), target, blocked)
                      IN  IF route = <<>>
                          THEN missions'[FirstMission].status = "pending"
                          ELSE /\ missions'[FirstMission].status = "active"
                               /\ missions'[FirstMission].assigned_robot = n
                               /\ robots'[n].path = Tail(route)
                               /\ Cell(robots'[n]) = Cell(robots[n])
        /\ (active /\ phase = 1 /\ phase' = 2) =>
              /\ missions'[FirstMission].status = "active"
              /\ IF robots[r].path = <<>>
                 THEN robots'[r].path = <<>> /\ Cell(robots'[r]) = Cell(robots[r])
                 ELSE /\ robots'[r].path = Tail(robots[r].path)
                      /\ Cell(robots'[r]) = Head(robots[r].path)
        /\ (active /\ phase = 2 /\ phase' = 3) =>
              IF robots[r].path = <<>>
              THEN missions'[FirstMission].status = "completed"
              ELSE /\ missions'[FirstMission].status = "active"
                   /\ robots'[r].path = robots[r].path
        /\ (active /\ phase = 3 /\ phase' = 4) =>
              /\ missions'[FirstMission].status = "active"
              /\ robots'[r].path = IF AtStation(robots[r]) THEN <<>> ELSE robots[r].path
        /\ (active /\ phase = 4 /\ phase' = 0) =>
              /\ missions'[FirstMission].status = "active"
              /\ robots'[r].path = robots[r].path

\* C12, amended: in the first tick after reset, phase 1 makes the first
\* mission active exactly when A* finds a route from its Manhattan-nearest
\* robot to the target (else it stays pending), and leaves that robot the route
\* without its first cell; phase 2 moves the robot one cell along it; the
\* mission is completed in phase 3 when the route had one or two cells, and
\* otherwise stays active with the route without its first two cells as the
\* robot's path, unless the robot stepped onto a station, where phase 4 empties
\* the path.
C12_FirstTick == [][C12_FirstTickStep]_vars

\* C12 witness: one tick after reset the first mission is active and its robot
\* has taken the first step of a longer route.
C12_Witness ==
    /\ phase = 0
    /\ tick_count = 1
    /\ missions[FirstMission].status = "active"
    /\ robots[missions[FirstMission].assigned_robot].total_distance_traveled = 1
    /\ Len(robots[missions[FirstMission].assigned_robot].path) > 1

(***************************************************************************)
(* get_state(): the metrics of the snapshot. The values that the code      *)
(* rounds to one decimal are given in tenths.                              *)
(***************************************************************************)
RECURSIVE SumSeq(_)
SumSeq(s) == IF s = <<>> THEN 0 ELSE Head(s) + SumSeq(Tail(s))

\* Tenths in one unit: round(x, 1) keeps one decimal.
Tenths == 10

\* Mutant of RoundTenths: the quotient is cut off instead of rounded.
TruncTenths(num, den) == (Tenths * num) \div den

\* round(num / den, 1), in tenths: the nearest tenth, the even one on a tie
\* (a tie is a quotient ending in .25 or .75 here, which a float holds exactly).
RoundTenths(num, den) ==
    LET q == (Tenths * num) \div den
        rem == (Tenths * num) % den
    IN  IF 2 * rem < den THEN q
        ELSE IF 2 * rem > den THEN q + 1
        ELSE IF q % 2 = 0 THEN q ELSE q + 1

\* metrics.completed_missions
completed_missions(ms) == Cardinality({m \in DOMAIN ms : ms[m].status = "completed"})

\* metrics.pending_missions
pending_missions(ms) == Cardinality({m \in DOMAIN ms : ms[m].status = "pending"})

\* metrics.active_robots
active_robots(rs) == Cardinality({r \in DOMAIN rs : rs[r].status # "dead"})

\* sum(r.total_distance_traveled for r in self.robots)
RECURSIVE DistanceSum(_, _)
DistanceSum(rs, k) ==
    IF k = 0 THEN 0 ELSE rs[k].total_distance_traveled + DistanceSum(rs, k - 1)

\* metrics.total_distance_traveled, in tenths
total_distance_traveled(rs) == RoundTenths(DistanceSum(rs, Len(rs)), 1)

\* metrics.avg_completion_time, in tenths
avg_completion_time(ct) ==
    IF ct = <<>> THEN 0 ELSE RoundTenths(SumSeq(ct), Len(ct))

\* The missions that a step completes.
NewlyCompleted ==
    {m \in MissionIds : missions[m].status # "completed" /\ missions'[m].status = "completed"}

\* One step of a tick: the series keeps its entries and gains one entry per
\* mission that the step completes, equal to completion_time - start_time.
C13_AppendStep ==
    TickStep =>
        /\ Len(completed_times') = Len(completed_times) + Cardinality(NewlyCompleted)
        /\ SubSeq(completed_times', 1, Len(completed_times)) = completed_times
        /\ \A m \in NewlyCompleted :
               \E i \in (Len(completed_times) + 1)..Len(completed_times') :
                   completed_times'[i] =
                       missions'[m].completion_time - missions'[m].start_time

\* The series is as long as the number of completed missions.
C13_SeriesLength == Len(completed_times) = completed_missions(missions)

\* C13 as claimed: the series has one entry per completed mission and the
\* snapshot's avg_completion_time is the mean of the series (0 when empty).
C13_AvgIsMean ==
    /\ C13_SeriesLength
    /\ avg_completion_time(completed_times) * Len(completed_times)
           = Tenths * SumSeq(completed_times)

\* The snapshot's avg_completion_time is a tenth nearest to the mean.
C13_AvgIsRoundedMean ==
    2 * Abs(avg_completion_time(completed_times) * Len(completed_times)
                - Tenths * SumSeq(completed_times)) <= Len(completed_times)

\* C13, amended: each completion appends exactly one entry equal to
\* completion_time - start_time, the series is as long as the number of
\* completed missions, and the snapshot's avg_completion_time is the mean of
\* the series rounded to one decimal (0 when the series is empty).
C13_CompletionSeries ==
    [](C13_SeriesLength /\ C13_AvgIsRoundedMean) /\ [][C13_AppendStep]_vars

\* C13 witness: several missions are completed and the mean of the series has
\* more than one decimal.
C13_Witness ==
    /\ Len(completed_times) >= 2
    /\ (Tenths * SumSeq(completed_times)) % Len(completed_times) # 0

\* The robots that a step moves to another cell.
MovedRobots == {r \in RobotIds : Cell(robots'[r]) # Cell(robots[r])}

\* One step of a tick: the metric grows by one unit per robot moved.
C14_DistanceStep ==
    TickStep =>
        /\ total_distance_traveled(robots') >= total_distance_traveled(robots)
        /\ total_distance_traveled(robots') =
               total_distance_traveled(robots) + Tenths * Cardinality(MovedRobots)

\* C14: between resets the metric total_distance_traveled never decreases, and
\* every step of a tick raises it by exactly the number of robots that the
\* step moved one cell.
C14_DistanceMonotone == [][C14_DistanceStep]_vars

\* C14 witness: phase 2 has moved some robots while another one stayed where
\* it was, dead.
C14_Witness ==
    /\ phase = 2
    /\ \E r \in RobotIds : robots[r].status = "moving" /\ robots[r].total_distance_traveled > 1
    /\ \E r \in RobotIds : robots[r].status = "dead"
    /\ total_distance_traveled(robots) > Tenths * NUM_ROBOTS

(***************************************************************************)
(* get_state() and GET /simulation/state. Batteries and the rounded        *)
(* metrics are in tenths; the timestamp is the clock (tick_count).         *)
(***************************************************************************)
\* Robot.to_out
RobotOut(id, r) ==
    [id |-> id, x |-> r.x, y |-> r.y, battery |-> RoundTenths(r.battery, 1),
     status |-> r.status, mission_id |-> r.mission_id]

\* Mission.to_out
MissionOut(id, m) ==
    [id |-> id, priority |-> m.priority, target |-> [x |-> m.target_x, y |-> m.target_y],
     status |-> m.status, assigned_robot |-> m.assigned_robot]

ObstacleOut(c) == [type |-> "debris", x |-> c[1], y |-> c[2]]

ChargingStationOut(c) == [x |-> c[1], y |-> c[2]]

MetricsOut(rs, ms, ct) ==
    [active_robots |-> active_robots(rs),
     completed_missions |-> completed_missions(ms),
     pending_missions |-> pending_missions(ms),
     total_distance_traveled |-> total_distance_traveled(rs),
     avg_completion_time |-> avg_completion_time(ct)]

\* The obstacle list comes out of a set, in no order of the program's
\* choosing: it is kept as a set.
get_state(rs, ms, blk, ct, now) ==
    [robots |-> [r \in DOMAIN rs |-> RobotOut(r, rs[r])],
     missions |-> [m \in DOMAIN ms |-> MissionOut(m, ms[m])],
     obstacles |-> {ObstacleOut(c) : c \in blk},
     charging_stations |-> [i \in DOMAIN ChargingStations |->
                               ChargingStationOut(ChargingStations[i])],
     metrics |-> MetricsOut(rs, ms, ct),
     timestamp |-> now]

\* get_simulation_state: the snapshot is taken under state_lock.
ServeSimulationState ==
    /\ EngineLockFree
    /\ engine_response' = get_state(robots, missions, blocked, completed_times, tick_count)

GetSimulationState ==
    /\ ServeSimulationState
    /\ UNCHANGED <<engine_vars, aggregator_vars, search>>

\* Ticks per run, where snapshot reads interleave with the phases.
MaxSnapshotTicks == 2

SnapshotAssignPendingMissions == tick_count < MaxSnapshotTicks /\ AssignPendingMissions

NextSnapshot ==
    \/ SnapshotAssignPendingMissions
    \/ MoveRobotsOneStep
    \/ ProcessMissionCompletion
    \/ ManageBatteryAndCharging
    \/ MarkDeadRobots
    \/ Reset
    \/ GetSimulationState

SpecSnapshot == Init /\ [][NextSnapshot]_vars

\* A step that takes a snapshot runs between two ticks, returns the state of
\* the engine as the last complete tick or reset left it, and changes nothing
\* in the engine; a reset step runs between two ticks; a tick starts only when
\* the five phases of the tick before it are applied.
C20_ExclusiveStep ==
    /\ engine_response' # engine_response =>
           /\ phase = 0
           /\ engine_response' =
                  get_state(robots, missions, blocked, completed_times, tick_count)
           /\ UNCHANGED engine_vars
    /\ (tick_count' = 0 /\ engine_vars' # engine_vars) => phase = 0
    /\ tick_count' = tick_count + 1 => (phase = 0 /\ phase' = 1)

\* C20: tick(), the snapshot read and reset() exclude one another: a snapshot
\* never shows a state between two phases of a tick, a reset never runs inside
\* a tick, and tick N+1 starts only after the five phases of tick N.
C20_EngineGuard == [][C20_ExclusiveStep]_vars

\* C20 witness: a snapshot taken after the first tick is in the client's hands
\* while the engine is between two phases of the second tick.
C20_Witness ==
    /\ engine_response.timestamp = 1
    /\ tick_count = 2
    /\ phase = 3
    /\ engine_response.robots # [r \in RobotIds |-> RobotOut(r, robots[r])]

(***************************************************************************)
(* The aggregator (src/backend/main.py): conversion of an engine payload.  *)
(***************************************************************************)
_status_to_ui(status) ==
    CASE status = "idle" -> "IDLE"
      [] status = "moving" -> "MOVING"
      [] status = "charging" -> "CHARGING"
      [] status = "dead" -> "DEAD"

_priority_to_ui(priority) ==
    CASE priority = "high" -> "High"
      [] priority = "medium" -> "Medium"
      [] priority = "low" -> "Low"

\* Mutant of _mission_status_to_ui: pending and active missions both come out
\* as IN_PROGRESS.
_mission_status_to_uiOpen(status) ==
    IF status = "completed" THEN "COMPLETED" ELSE "IN_PROGRESS"

_mission_status_to_ui(status) ==
    CASE status = "pending" -> "PENDING"
      [] status = "active" -> "IN_PROGRESS"
      [] status = "completed" -> "COMPLETED"

\* None in a field of type Optional[str].
NoneStr == "None"

\* str(value) if value is not None else None
OptionalStr(value) == IF value # None THEN ToString(value) ELSE NoneStr

\* dict.get(key, default)
Get(dict, key, default) == IF key \in DOMAIN dict THEN dict[key] ELSE default

\* json.loads("{}")
EmptyObject == [key \in {} |-> {}]

RobotState(robot) ==
    [id |-> ToString(robot.id), position |-> <<robot.x, robot.y>>,
     battery |-> robot.battery, status |-> _status_to_ui(robot.status),
     current_mission |-> OptionalStr(robot.mission_id)]

to_mission(item) ==
    [id |-> ToString(item.id), priority |-> _priority_to_ui(item.priority),
     target |-> <<item.target.x, item.target.y>>,
     status |-> _mission_status_to_ui(item.status),
     assigned_robot |-> OptionalStr(item.assigned_robot)]

MapSeq(s, Op(_)) == [i \in DOMAIN s |-> Op(s[i])]

\* Mutant of IsCompletedRow: an active mission counts as completed.
IsCompletedRowOrActive(mission) == mission.status \in {"completed", "active"}

\* str(mission.get("status", "")).lower() == "completed"
IsCompletedRow(mission) == mission.status = "completed"

_convert_simulation_state(payload, step) ==
    LET robot_rows == Get(payload, "robots", <<>>)
        mission_rows == Get(payload, "missions", <<>>)
        active_rows == SelectSeq(mission_rows, LAMBDA m : ~IsCompletedRow(m))
        completed_rows == SelectSeq(mission_rows, LAMBDA m : IsCompletedRow(m))
    IN  [step |-> step,
         robots |-> MapSeq(robot_rows, RobotState),
         grid |-> [width |-> SIM_GRID_SIZE, height |-> SIM_GRID_SIZE,
                   obstacles |-> {<<o.x, o.y>> : o \in Get(payload, "obstacles", {})},
                   charging_stations |->
                       MapSeq(Get(payload, "charging_stations", <<>>),
                              LAMBDA s : <<s.x, s.y>>)],
         active_missions |-> MapSeq(active_rows, to_mission),
         completed_missions |-> MapSeq(completed_rows, to_mission)]

\* metrics = payload.get("metrics") or {}, and the two fields stored from it.
PayloadMetrics(payload) ==
    LET metrics == Get(payload, "metrics", EmptyObject)
    IN  [avg_completion_time |-> Get(metrics, "avg_completion_time", 0),
         total_distance_traveled |-> Get(metrics, "total_distance_traveled", 0)]

\* current_state.model_dump_json()
model_dump_json(state) == [json |-> state]

(***************************************************************************)
(* _poll_simulation_forever. The poller is at "fetch" while it awaits       *)
(* _fetch_simulator_state, at "acquire" while it waits for state_lock, at   *)
(* "locked" inside "async with state_lock", at "sleep" in asyncio.sleep,    *)
(* and "stopped" once an exception has ended the task.                     *)
(***************************************************************************)
\* Successful polls per run.
MaxPolls == 2

HeldBy(holder, id) == [holder |-> holder, id |-> id]

\* Mutant of ReceivedPayload: the payload is converted with the step of the
\* poll before.
ReceivedPayloadStale(p, payload) ==
    [p EXCEPT !.pc = "acquire", !.step = @ + 1, !.payload = "dict",
              !.converted = _convert_simulation_state(payload, p.step),
              !.metrics = PayloadMetrics(payload)]

\* payload is a dict: the step is counted and the payload converted.
ReceivedPayload(p, payload) ==
    [p EXCEPT !.pc = "acquire", !.step = @ + 1, !.payload = "dict",
              !.converted = _convert_simulation_state(payload, p.step + 1),
              !.metrics = PayloadMetrics(payload)]

\* Mutant of FailedPoll: a failed fetch is counted as a step.
FailedPollCounted(p) == [p EXCEPT !.pc = "sleep", !.payload = "None", !.step = @ + 1]

\* payload is None: straight to the sleep.
FailedPoll(p) == [p EXCEPT !.pc = "sleep", !.payload = "None"]

\* payload is not None and not a dict: the step is counted, then
\* _convert_simulation_state raises and the exception ends the task.
RaisedInConvert(p) == [p EXCEPT !.pc = "stopped", !.payload = "list", !.step = @ + 1]

\* The fetch returns the engine's snapshot.
FetchEngineState ==
    /\ poller.pc = "fetch"
    /\ poller.step < MaxPolls
    /\ ServeSimulationState
    /\ poller' = ReceivedPayload(poller, engine_response')
    /\ UNCHANGED <<engine_vars, other_vars, current_state, latest_simulator_metrics, state_lock,
                   streams, state_response>>

\* URLError, TimeoutError, a body that json.loads rejects, or the body "null":
\* _fetch_simulator_state returns None.
FetchFails ==
    /\ poller.pc = "fetch"
    /\ poller' = FailedPoll(poller)
    /\ UNCHANGED <<engine_vars, other_vars, engine_response, current_state, latest_simulator_metrics,
                   state_lock, streams, state_response>>

\* Bodies that json.loads accepts and the engine never sends: "{}" and "[]".
ForeignBodies == {[kind |-> "object", body |-> EmptyObject],
                  [kind |-> "array", body |-> EmptyObject]}

FetchForeignBody ==
    /\ poller.pc = "fetch"
    /\ poller.step < MaxPolls
    /\ \E payload \in ForeignBodies :
           poller' = IF payload.kind = "object"
                     THEN ReceivedPayload(poller, payload.body)
                     ELSE RaisedInConvert(poller)
    /\ UNCHANGED <<engine_vars, other_vars, engine_response, current_state, latest_simulator_metrics,
                   state_lock, streams, state_response>>

PollerAcquire ==
    /\ poller.pc = "acquire"
    /\ state_lock = Unlocked
    /\ state_lock' = HeldBy("poller", 0)
    /\ poller' = [poller EXCEPT !.pc = "locked"]
    /\ UNCHANGED <<engine_vars, other_vars, engine_response, current_state, latest_simulator_metrics,
                   streams, state_response>>

\* Mutant of ReleasedByPoller: the poller keeps the guard after publishing.
KeptByPoller == HeldBy("poller", 0)

\* The guard as the poller's "async with" block leaves it.
ReleasedByPoller == Unlocked

\* The block under state_lock, and the release. The locals are dead after it.
PollerPublish ==
    /\ poller.pc = "locked"
    /\ current_state' = poller.converted
    /\ latest_simulator_metrics' = poller.metrics
    /\ state_lock' = ReleasedByPoller
    /\ poller' = [poller EXCEPT !.pc = "sleep", !.converted = EmptyState,
                                !.metrics = ZeroMetrics]
    /\ UNCHANGED <<engine_vars, other_vars, engine_response, streams, state_response>>

PollerWake ==
    /\ poller.pc = "sleep"
    /\ poller' = [poller EXCEPT !.pc = "fetch"]
    /\ UNCHANGED <<engine_vars, other_vars, engine_response, current_state, latest_simulator_metrics,
                   state_lock, streams, state_response>>

(***************************************************************************)
(* stream_simulation_state: the emitter of stream c is at "check" in        *)
(* request.is_disconnected(), at "acquire" waiting for state_lock, at       *)
(* "locked" inside it, at "yield" handing the event over, at "sleep" in     *)
(* asyncio.sleep(1), and "done" after the break.                           *)
(***************************************************************************)
OpenStream(c) ==
    /\ streams[c].pc = "closed"
    /\ streams' = [streams EXCEPT ![c].pc = "check"]
    /\ UNCHANGED <<engine_vars, other_vars, engine_response, current_state, latest_simulator_metrics,
                   state_lock, poller, state_response>>

\* The client closes the connection.
ClientDisconnects(c) ==
    /\ streams[c].pc \notin {"closed", "done"}
    /\ ~streams[c].disconnected
    /\ streams' = [streams EXCEPT ![c].disconnected = TRUE]
    /\ UNCHANGED <<engine_vars, other_vars, engine_response, current_state, latest_simulator_metrics,
                   state_lock, poller, state_response>>

\* Mutant of AfterCheck: the emitter goes on whatever the check returns.
AfterCheckNoBreak(disconnected) == "acquire"

\* if await request.is_disconnected(): break
AfterCheck(disconnected) == IF disconnected THEN "done" ELSE "acquire"

StreamCheck(c) ==
    /\ streams[c].pc = "check"
    /\ streams' = [streams EXCEPT ![c].pc = AfterCheck(streams[c].disconnected)]
    /\ UNCHANGED <<engine_vars, other_vars, engine_response, current_state, latest_simulator_metrics,
                   state_lock, poller, state_response>>

StreamAcquire(c) ==
    /\ streams[c].pc = "acquire"
    /\ state_lock = Unlocked
    /\ state_lock' = HeldBy("stream", c)
    /\ streams' = [streams EXCEPT ![c].pc = "locked"]
    /\ UNCHANGED <<engine_vars, other_vars, engine_response, current_state, latest_simulator_metrics,
                   poller, state_response>>

StreamRead(c) ==
    /\ streams[c].pc = "locked"
    /\ streams' = [streams EXCEPT ![c].pc = "yield",
                                  ![c].payload = model_dump_json(current_state)]
    /\ state_lock' = Unlocked
    /\ UNCHANGED <<engine_vars, other_vars, engine_response, current_state, latest_simulator_metrics,
                   poller, state_response>>

\* The event goes out; payload is dead until the next read.
StreamYield(c) ==
    /\ streams[c].pc = "yield"
    /\ streams' = [streams EXCEPT ![c].pc = "sleep",
                                  ![c].payload = model_dump_json(EmptyState)]
    /\ UNCHANGED <<engine_vars, other_vars, engine_response, current_state, latest_simulator_metrics,
                   state_lock, poller, state_response>>

StreamWake(c) ==
    /\ streams[c].pc = "sleep"
    /\ streams' = [streams EXCEPT ![c].pc = "check"]
    /\ UNCHANGED <<engine_vars, other_vars, engine_response, current_state, latest_simulator_metrics,
                   state_lock, poller, state_response>>

(***************************************************************************)
(* GET /api/v1/state and POST /api/v1/update.                              *)
(***************************************************************************)
get_simulation_state ==
    /\ state_lock = Unlocked
    /\ state_response' = [served |-> TRUE, body |-> current_state]
    /\ UNCHANGED <<engine_vars, other_vars, engine_response, current_state, latest_simulator_metrics,
                   state_lock, poller, streams>>

\* The step of a snapshot sent by hand.
ManualStep == 7

\* Bodies of POST /update: snapshots with nothing in them.
ManualStates == {EmptyState, [EmptyState EXCEPT !.step = ManualStep]}

update_simulation_state ==
    /\ state_lock = Unlocked
    /\ \E state \in ManualStates : current_state' = state
    /\ UNCHANGED <<engine_vars, other_vars, engine_response, latest_simulator_metrics, state_lock,
                   poller, streams, state_response>>

(***************************************************************************)
(* The engine beside the aggregator: one reset outcome, whole ticks.       *)
(***************************************************************************)
\* Ticks of the engine per run of the aggregator.
MaxAggregatorTicks == 1

\* tick(): the five phases in one step, which state_lock makes of them.
EngineTick ==
    /\ EngineLockFree
    /\ tick_count < MaxAggregatorTicks
    /\ LET now == tick_count + 1
           w1 == _assign_pending_missions([robots |-> robots, missions |-> missions],
                                          blocked, now)
           moved == _move_robots_one_step(w1.robots)
           w3 == _process_mission_completion(
                     [robots |-> moved, missions |-> w1.missions,
                      completed_times |-> completed_times], now)
           w4 == _manage_battery_and_charging(
                     [robots |-> w3.robots, missions |-> w3.missions], blocked)
           w5 == _mark_dead_robots(w4)
       IN  /\ tick_count' = now
           /\ robots' = w5.robots
           /\ missions' = w5.missions
           /\ completed_times' = w3.completed_times
           /\ first_start' = [m \in MissionIds |->
                                IF first_start[m] = None /\ w1.missions[m].status = "active"
                                THEN now ELSE first_start[m]]
           /\ moved_at_two' = {r \in RobotIds : Moves(w1.robots[r]) /\ w1.robots[r].battery = 2}
    /\ UNCHANGED <<blocked, phase, engine_response, aggregator_vars, search>>

\* The reset outcome of the runs of the aggregator: each robot starts four
\* cells from one of the first five targets.
AggregatorRobotPlacement == << <<1,5>>, <<1,45>>, <<34,4>>, <<24,39>>, <<13,31>> >>

AggregatorObstacles == CHOOSE obs \in ObstacleLayouts : <<3, 5>> \in obs

AggregatorMissionPlacement == CHOOSE targets \in MissionPlacements : targets[1] = <<1, 1>>

InitAggregator ==
    /\ ResetOutcome(AggregatorObstacles, AggregatorRobotPlacement, AggregatorMissionPlacement)
    /\ blocked = AggregatorObstacles
    /\ robots = [r \in RobotIds |-> NewRobot(AggregatorRobotPlacement[r])]
    /\ missions = [m \in MissionIds |->
                      NewMission(PriorityOf(m), AggregatorMissionPlacement[m])]
    /\ completed_times = <<>>
    /\ tick_count = 0
    /\ phase = 0
    /\ first_start = [m \in MissionIds |-> None]
    /\ moved_at_two = {}
    /\ AggregatorInit

\* The poller beside the engine, with clients of GET /state and POST /update
\* and no streaming client.
NextAggregator ==
    \/ EngineTick
    \/ FetchEngineState
    \/ FetchFails
    \/ FetchForeignBody
    \/ PollerAcquire
    \/ PollerPublish
    \/ PollerWake
    \/ get_simulation_state
    \/ update_simulation_state

SpecAggregator == InitAggregator /\ [][NextAggregator]_vars

\* The poller beside the streaming clients, the engine between two ticks.
NextStreams ==
    \/ FetchEngineState
    \/ FetchFails
    \/ FetchForeignBody
    \/ PollerAcquire
    \/ PollerPublish
    \/ PollerWake
    \/ get_simulation_state
    \/ \E c \in Streams :
           \/ OpenStream(c)
           \/ ClientDisconnects(c)
           \/ StreamCheck(c)
           \/ StreamAcquire(c)
           \/ StreamRead(c)
           \/ StreamYield(c)
           \/ StreamWake(c)

SpecStreams == InitAggregator /\ [][NextStreams]_vars

(***************************************************************************)
(* Properties of the aggregator.                                           *)
(***************************************************************************)
\* The step in which _fetch_simulator_state returns None.
FailedPollStep == poller.pc = "fetch" /\ poller'.pc = "sleep"

\* The step in which the poller stores what it converted.
PublishStep == poller.pc = "locked" /\ poller'.pc = "sleep"

\* A failed poll leaves the counter, the snapshot and the metric fields as
\* they are, and GET /state returns the published snapshot.
C15_FailedPoll ==
    /\ FailedPollStep =>
           /\ poller'.step = poller.step
           /\ current_state' = current_state
           /\ latest_simulator_metrics' = latest_simulator_metrics
    /\ state_response' # state_response =>
           /\ state_response'.body = current_state
           /\ current_state' = current_state

\* C15: a failed poll (timeout, connection error, unparsable body) advances
\* no step counter and leaves the published snapshot and the stored metric
\* fields unchanged, so GET /state keeps returning the last published snapshot
\* with the same step across failed polls.
C15_FailedPollKeepsSnapshot == [][C15_FailedPoll]_vars

\* C15 witness: after a published poll the next fetch has failed, and GET
\* /state has returned the snapshot of the poll before while the engine had
\* moved on.
C15_Witness ==
    /\ poller.pc = "sleep"
    /\ poller.payload = "None"
    /\ poller.step >= 1
    /\ current_state.step = poller.step
    /\ current_state.robots # <<>>
    /\ state_response.served
    /\ state_response.body = current_state
    /\ tick_count > engine_response.timestamp

\* A snapshot that POST /update can have sent.
SentByHand(state) == state \in ManualStates

\* C16 as claimed: a later read of GET /state never returns a smaller step
\* than an earlier one: the step of every response served so far is at most
\* the step that a read would return now.
C16_StepNeverDecreases ==
    state_response.served => state_response.body.step <= current_state.step

\* One step of the aggregator, on the counter and the published step.
C16_OrderStep ==
    /\ poller'.step >= poller.step
    /\ PublishStep => current_state'.step = poller.step
    /\ current_state'.step < current_state.step =>
           \/ poller' = poller /\ SentByHand(current_state')
           \/ PublishStep /\ SentByHand(current_state)

\* C16, amended: the poller's step counter never decreases and every snapshot
\* the poller publishes carries the counter's value; the published step goes
\* down only when POST /update stores a snapshot with a smaller step, or when
\* the poller publishes over a snapshot that POST /update stored with a step
\* above the counter.
C16_StepOrder == [][C16_OrderStep]_vars

\* C16 witness: GET /state has returned the step of a snapshot sent by hand,
\* and the poller has since published its own, smaller step over it.
C16_Witness ==
    /\ state_response.served
    /\ state_response.body.step = ManualStep
    /\ poller.pc = "sleep"
    /\ poller.payload = "dict"
    /\ current_state.step = poller.step
    /\ current_state.step < ManualStep

\* C17: the poller never stops: after every iteration, whatever the fetch
\* returned, it sleeps and fetches again.
C17_PollerNeverStops == poller.pc # "stopped"

\* The guard is held by stream c.
HeldByStream(c) == state_lock = HeldBy("stream", c)

\* A task holds the guard only inside its "async with" block, never at a
\* fetch, a sleep, a disconnect check or an event yield; so the guard an
\* emitter waits for while the poller fetches or sleeps is free, or held by
\* another emitter inside its block.
C18_GuardOnlyInBlock ==
    /\ state_lock.holder \in {"none", "poller", "stream"}
    /\ state_lock.holder = "poller" => poller.pc = "locked"
    /\ state_lock.holder = "stream" =>
           state_lock.id \in Streams /\ streams[state_lock.id].pc = "locked"
    /\ poller.pc \in {"fetch", "sleep", "stopped"} =>
           /\ \A c \in Streams :
                  streams[c].pc = "acquire" =>
                      \/ state_lock = Unlocked
                      \/ \E d \in Streams \ {c} : HeldByStream(d) /\ streams[d].pc = "locked"
           /\ (\A c \in Streams : streams[c].pc # "locked") => ENABLED get_simulation_state

\* What an emitter reads under the guard is the published snapshot, which the
\* read leaves as it is, and the event it yields is what it read.
C18_EmitStep ==
    \A c \in Streams :
        /\ (streams[c].pc = "locked" /\ streams'[c].pc = "yield") =>
               /\ streams'[c].payload = model_dump_json(current_state)
               /\ current_state' = current_state
               /\ state_lock' = Unlocked
        /\ (streams[c].pc = "yield" /\ streams'[c].pc = "yield") =>
               streams'[c].payload = streams[c].payload
        /\ state_response' # state_response =>
               /\ state_response'.body = current_state
               /\ current_state' = current_state
               /\ state_lock' = Unlocked

\* C18: no task holds the snapshot guard across a suspension point, so while
\* the poller is blocked in a fetch the emitters can take the guard, and they
\* keep emitting the last published snapshot unchanged.
C18_NoGuardAcrossSuspension == [](C18_GuardOnlyInBlock) /\ [][C18_EmitStep]_vars

\* C18 witness: the poller is blocked in a fetch after a poll it published,
\* and an emitter holds the guard to read that snapshot.
C18_Witness ==
    /\ poller.pc = "fetch"
    /\ poller.step >= 1
    /\ current_state.step = poller.step
    /\ current_state.robots # <<>>
    /\ \E c \in Streams : HeldByStream(c) /\ streams[c].pc = "locked"
    /\ state_response.served
    /\ state_response.body = current_state

\* One step, on the emitter of every stream: a check that finds the client
\* gone ends the emitter, and an emitter that has ended does nothing more.
C19_DisconnectStep ==
    \A c \in Streams :
        /\ (streams[c].pc = "check" /\ streams[c].disconnected /\ streams'[c] # streams[c]) =>
               streams'[c].pc = "done"
        /\ streams[c].pc = "done" => streams'[c] = streams[c]
        /\ streams'[c].pc = "done" => ~HeldByStream(c)'

\* Every emitter reaches its disconnect check again and again.
EmitterFairness ==
    \A c \in Streams :
        /\ WF_vars(StreamCheck(c))
        /\ SF_vars(StreamAcquire(c))
        /\ WF_vars(StreamRead(c))
        /\ WF_vars(StreamYield(c))
        /\ WF_vars(StreamWake(c))

\* The event loop runs every task that is ready, and asyncio.Lock wakes its
\* waiters in turn.
FairSpecStreams == SpecStreams /\ EmitterFairness /\ WF_vars(PollerPublish)

\* C19: after its client disconnects, an emitter finds the client gone at its
\* next disconnect check and ends there: no event after that check, no further
\* iteration, and the guard is not held by it when it ends.
C19_EmitterEnds ==
    /\ [][C19_DisconnectStep]_vars
    /\ \A c \in Streams : streams[c].disconnected ~> (streams[c].pc = "done")

\* C19 witness: an emitter has ended after its client disconnected, while the
\* poller goes on publishing.
C19_Witness ==
    /\ \E c \in Streams : streams[c].pc = "done" /\ streams[c].disconnected
    /\ poller.step >= 1
    /\ current_state.step = poller.step
    /\ state_lock = Unlocked

(***************************************************************************)
(* Properties of reset().                                                  *)
(***************************************************************************)
\* The missions of one priority.
MissionsOfPriority(p) == {m \in DOMAIN missions : missions[m].priority = p}

\* The constraints on the state reset() leaves.
FreshState ==
    /\ DOMAIN robots = 1..5
    /\ \A r \in DOMAIN robots :
           /\ robots[r].status = "idle"
           /\ robots[r].battery = 100
           /\ robots[r].mission_id = None
           /\ robots[r].path = <<>>
           /\ Cell(robots[r]) \notin blocked
           /\ Cell(robots[r]) \notin StationPositions
    /\ DOMAIN missions = 1..15
    /\ \A i \in 1..Len(Priorities) : Cardinality(MissionsOfPriority(Priorities[i])) = 5
    /\ \A m \in DOMAIN missions :
           /\ missions[m].status = "pending"
           /\ missions[m].assigned_robot = None
           /\ Target(missions[m]) \notin blocked
           /\ Target(missions[m]) \notin StationPositions
    /\ Cardinality(blocked) = 10
    /\ blocked \cap StationPositions = {}
    /\ completed_times = <<>>

\* C22: reset() from any state, the state another reset left included, yields
\* a state with exactly 5 idle robots at battery 100 with no mission and no
\* path, exactly 15 pending unassigned missions (5 per priority), exactly 10
\* obstacle cells none of which is a station, no start cell and no target on
\* an obstacle or a station, and an empty completion-time series.
C22_ResetYieldsFreshState ==
    /\ [](tick_count = 0 => FreshState)
    /\ [][tick_count' = 0 => FreshState']_vars

\* C22 witness: reset() has run after a tick: the client holds a snapshot of
\* the first tick with a robot under way, and the engine is fresh again.
C22_Witness ==
    /\ tick_count = 0
    /\ FreshState
    /\ engine_response.timestamp >= 1
    /\ \E r \in RobotIds : engine_response.robots[r].status = "moving"

(***************************************************************************)
(* Properties of the assignment phase.                                     *)
(***************************************************************************)
\* A step of phase 1.
AssignStep == phase = 0 /\ phase' = 1

\* The missions the step assigns.
NewlyAssigned == {m \in MissionIds : missions[m].status = "pending" /\ missions'[m].status = "active"}

\* The robots the step hands a mission to.
NewlyBusy == {r \in RobotIds : robots'[r] # robots[r]}

\* Mission m was passed over because A* found no path to it from a robot that
\* could take a mission.
SkippedForNoPath(m) ==
    /\ missions'[m] = missions[m]
    /\ \E r \in IdleRobots(robots) : astar(Cell(robots[r]), Target(missions[m]), blocked) = <<>>

HigherPriority(a, b) ==
    PRIORITY_SCORES(missions[a].priority) > PRIORITY_SCORES(missions[b].priority)

C23_AssignStep ==
    AssignStep =>
        \* only robots that were idle with battery > 50 get a mission
        /\ NewlyBusy \subseteq {r \in RobotIds : robots[r].status = "idle" /\ robots[r].battery > 50}
        \* one mission per robot, one robot per mission
        /\ \A r \in NewlyBusy :
               /\ robots'[r].mission_id \in NewlyAssigned
               /\ missions'[robots'[r].mission_id].assigned_robot = r
        /\ \A m \in NewlyAssigned :
               /\ missions'[m].assigned_robot \in NewlyBusy
               /\ robots'[missions'[m].assigned_robot].mission_id = m
        /\ \A m \in MissionIds \ NewlyAssigned : missions'[m] = missions[m]
        \* the phase stops when no robot is left: a mission still pending and not
        \* skipped for want of a path means that every robot is taken
        /\ \A m \in MissionIds :
               (missions'[m].status = "pending" /\ ~SkippedForNoPath(m)) =>
                   /\ IdleRobots(robots') = {}
                   /\ \A n \in NewlyAssigned : ~HigherPriority(m, n)
        \* descending priority
        /\ \A m \in NewlyAssigned : \A h \in MissionIds :
               (missions[h].status = "pending" /\ HigherPriority(h, m)) =>
                   (h \in NewlyAssigned \/ SkippedForNoPath(h))

\* C23: the assignment phase takes the pending missions in descending
\* priority, assigns only robots that are idle with battery > 50, gives a
\* robot at most one mission per tick and stops at the first mission for which
\* no such robot is left; so when a mission is assigned, every pending mission
\* of strictly higher priority was assigned in the same tick or skipped for
\* want of a path.
C23_PriorityOrder == [][C23_AssignStep]_vars

\* C23 witness: the phase has just assigned a mission while a mission of
\* higher priority stays pending, and a robot that can take a mission is left.
C23_Witness ==
    /\ phase = 1
    /\ \E m, h \in MissionIds :
           /\ missions[m].status = "active"
           /\ missions[m].start_time = tick_count
           /\ missions[h].status = "pending"
           /\ HigherPriority(h, m)
    /\ IdleRobots(robots) # {}

\* Mission a is taken before mission b by the loop of the phase.
TakenBefore(a, b) ==
    \/ HigherPriority(a, b)
    \/ (PRIORITY_SCORES(missions[a].priority) = PRIORITY_SCORES(missions[b].priority) /\ a < b)

\* The robots that are idle with battery > 50 when the loop comes to mission m:
\* those of the start of the phase less those taken by the missions before m.
CandidatesAt(m) ==
    {r \in RobotIds : robots[r].status = "idle" /\ robots[r].battery > 50}
        \ {missions'[n].assigned_robot : n \in {a \in NewlyAssigned : TakenBefore(a, m)}}

DistanceTo(r, m) == Abs(robots[r].x - missions[m].target_x) + Abs(robots[r].y - missions[m].target_y)

C24_AssignStep ==
    AssignStep =>
        \A m \in NewlyAssigned :
            LET chosen == missions'[m].assigned_robot
            IN  /\ chosen \in CandidatesAt(m)
                /\ \A q \in CandidatesAt(m) :
                       /\ DistanceTo(chosen, m) <= DistanceTo(q, m)
                       /\ DistanceTo(chosen, m) = DistanceTo(q, m) => chosen <= q

\* C24: the robot chosen for a mission has the least Manhattan distance to the
\* target among the robots that are idle with battery > 50 at that moment, and
\* of several robots at the least distance the first of the robot list.
C24_NearestRobotChosen == [][C24_AssignStep]_vars

\* C24 witness: a mission has just been assigned to a robot while a robot
\* later in the list, which the same phase gave a later mission, stands at the
\* same distance from the target.
C24_Witness ==
    /\ phase = 1
    /\ \E m, n \in MissionIds :
           /\ missions[m].status = "active" /\ missions[m].start_time = tick_count
           /\ missions[n].status = "active" /\ missions[n].start_time = tick_count
           /\ TakenBefore(m, n)
           /\ missions[m].assigned_robot < missions[n].assigned_robot
           /\ DistanceTo(missions[m].assigned_robot, m) = DistanceTo(missions[n].assigned_robot, m)

\* Robot r is the first robot of least distance to mission m in the set.
FirstNearest(r, m, candidates) ==
    /\ r \in candidates
    /\ \A q \in candidates :
           \/ DistanceTo(r, m) < DistanceTo(q, m)
           \/ (DistanceTo(r, m) = DistanceTo(q, m) /\ r <= q)

\* The loop comes to the pending mission m, selects robot r as the nearest
\* candidate, and A* finds no path from r to the target.
NoPathFrom(r, m) ==
    /\ missions[m].status = "pending"
    /\ FirstNearest(r, m, CandidatesAt(m))
    /\ astar(Cell(robots[r]), Target(missions[m]), blocked) = <<>>

\* The loop comes to mission m with a candidate left, and does not assign it.
PassedOver(m) ==
    /\ missions[m].status = "pending"
    /\ CandidatesAt(m) # {}
    /\ m \notin NewlyAssigned

C25_AssignStep ==
    AssignStep =>
        \A m \in MissionIds :
            /\ PassedOver(m) => \E r \in CandidatesAt(m) : NoPathFrom(r, m)
            /\ \A r \in RobotIds :
                   (PassedOver(m) /\ NoPathFrom(r, m)) =>
                       \* the mission stays pending and unassigned
                       /\ missions'[m] = missions[m]
                       /\ missions'[m].status = "pending"
                       /\ missions'[m].assigned_robot = None
                       \* the robot is not consumed: unchanged, or taken by a later mission
                       /\ \/ robots'[r] = robots[r]
                          \/ /\ robots'[r].mission_id \in NewlyAssigned
                             /\ TakenBefore(m, robots'[r].mission_id)
                       \* the loop goes on: a later mission is assigned, or has no
                       \* candidate, or has no path either
                       /\ \A n \in MissionIds :
                              (missions[n].status = "pending" /\ TakenBefore(m, n)) =>
                                  \/ n \in NewlyAssigned
                                  \/ CandidatesAt(n) = {}
                                  \/ \E q \in CandidatesAt(n) : NoPathFrom(q, n)

\* C25: when A* finds no path from the nearest candidate robot to a mission's
\* target, the phase leaves the mission pending and unassigned and the robot
\* as it is, and goes on to the next pending mission in the same tick.
C25_UnreachableSkipped == [][C25_AssignStep]_vars

\* C25 witness: an idle robot with a full battery is walled in next to the
\* target of a pending mission, nearer than every other robot, and the phase
\* has just assigned a mission that comes later in the order.
C25_Witness ==
    /\ phase = 1
    /\ \E m, n \in MissionIds, r \in RobotIds :
           /\ missions[m].status = "pending" /\ missions[m].assigned_robot = None
           /\ robots[r].status = "idle" /\ robots[r].mission_id = None /\ robots[r].path = <<>>
           /\ \A q \in RobotIds \ {r} : DistanceTo(r, m) < DistanceTo(q, m)
           /\ astar(Cell(robots[r]), Target(missions[m]), blocked) = <<>>
           /\ missions[n].status = "active" /\ missions[n].start_time = tick_count
           /\ TakenBefore(m, n)

(***************************************************************************)
(* Robots that no phase touches.                                           *)
(***************************************************************************)
\* An idle robot off the stations, with no mission and a battery from 20 to 50.
Stranded(r) ==
    /\ robots[r].status = "idle"
    /\ ~(<<robots[r].x, robots[r].y>> \in StationPositions)
    /\ robots[r].mission_id = None
    /\ 20 <= robots[r].battery
    /\ robots[r].battery <= 50

C30_StrandedStep ==
    \A r \in RobotIds :
        (Stranded(r) /\ TickStep) =>
            /\ robots'[r].x = robots[r].x
            /\ robots'[r].y = robots[r].y
            /\ robots'[r].battery = robots[r].battery
            /\ robots'[r].status = "idle"
            /\ robots'[r].mission_id = None
            /\ Stranded(r)'

\* C30: an idle robot off the stations with no mission and a battery b,
\* 20 <= b <= 50, is changed by no later tick: it gets no mission, is not
\* routed to a charger, and keeps its cell, battery and status until reset.
C30_StrandedForever == [][C30_StrandedStep]_vars

\* C30 witness: a robot has sat on the target of the mission it completed for
\* two ticks or more, with a battery from 20 to 50, while a mission is pending.
C30_Witness ==
    /\ phase = 0
    /\ \E r \in RobotIds, m, p \in MissionIds :
           /\ Stranded(r)
           /\ missions[m].status = "completed"
           /\ missions[m].assigned_robot = r
           /\ missions[m].completion_time + 2 <= tick_count
           /\ Cell(robots[r]) = Target(missions[m])
           /\ missions[p].status = "pending"

(***************************************************************************)
(* astar on its own: the arguments are drawn around a room in the corner    *)
(* (0,0) of the grid and at the corner (GRID_SIZE-1, GRID_SIZE-1).          *)
(***************************************************************************)
\* The wall around the cells 0..4 x 0..4.
RoomWall == {<<5, y>> : y \in 0..5} \cup {<<x, 5>> : x \in 0..5}

\* The wall with a door.
RoomWallWithDoor == RoomWall \ {<<5, 2>>}

\* Cells of the room that may hold an obstacle.
RoomCells == {<<0, 1>>, <<1, 0>>, <<1, 1>>, <<1, 2>>, <<2, 1>>, <<3, 3>>}

\* Obstacles in the room behind the door.
DoorRoomObstacles == {{}, {<<1, 1>>, <<3, 3>>}, {<<0, 1>>, <<1, 0>>}, {<<1, 2>>, <<2, 1>>, <<3, 3>>}}

SearchStarts == {<<0, 0>>, <<2, 2>>}

SearchGoals == {<<0, 0>>, <<0, 3>>, <<1, 1>>, <<4, 4>>, <<7, 7>>}

\* The far corner of the grid, with and without obstacles beside it.
CornerSearches ==
    {[start |-> s, goal |-> g, blocked |-> b] :
        s \in {<<GRID_SIZE - 1, GRID_SIZE - 1>>, <<GRID_SIZE - 3, GRID_SIZE - 1>>},
        g \in {<<GRID_SIZE - 1, GRID_SIZE - 1>>, <<GRID_SIZE - 2, GRID_SIZE - 3>>},
        b \in {{}, {<<GRID_SIZE - 2, GRID_SIZE - 1>>, <<GRID_SIZE - 2, GRID_SIZE - 2>>},
               {<<GRID_SIZE - 2, GRID_SIZE - 1>>, <<GRID_SIZE - 1, GRID_SIZE - 2>>}}}

SearchArguments ==
    {[start |-> s, goal |-> g, blocked |-> RoomWall \cup b] :
        s \in SearchStarts, g \in SearchGoals, b \in SUBSET RoomCells}
    \cup {[start |-> s, goal |-> g, blocked |-> RoomWallWithDoor \cup b] :
        s \in SearchStarts, g \in SearchGoals, b \in DoorRoomObstacles}
    \cup CornerSearches

InitAstar ==
    /\ ResetOutcome(AggregatorObstacles, AggregatorRobotPlacement, AggregatorMissionPlacement)
    /\ blocked = AggregatorObstacles
    /\ robots = [r \in RobotIds |-> NewRobot(AggregatorRobotPlacement[r])]
    /\ missions = [m \in MissionIds |->
                      NewMission(PriorityOf(m), AggregatorMissionPlacement[m])]
    /\ completed_times = <<>>
    /\ tick_count = 0
    /\ phase = 0
    /\ first_start = [m \in MissionIds |-> None]
    /\ moved_at_two = {}
    /\ engine_response = NoSnapshot
    /\ current_state = EmptyState
    /\ latest_simulator_metrics = ZeroMetrics
    /\ state_lock = Unlocked
    /\ poller = NewPoller
    /\ streams = [c \in Streams |-> NoStream]
    /\ state_response = [served |-> FALSE, body |-> EmptyState]
    /\ missions_response = [served |-> FALSE, body |-> <<>>]
    /\ decide = NoDecision
    /\ \E a \in SearchArguments :
           /\ a.start \notin a.blocked
           /\ search = [start |-> a.start, goal |-> a.goal, blocked |-> a.blocked,
                        called |-> FALSE, path |-> <<>>]

CallAstar ==
    /\ ~search.called
    /\ search' = [search EXCEPT !.called = TRUE,
                                !.path = astar(search.start, search.goal, search.blocked)]
    /\ UNCHANGED <<engine_vars, engine_response, aggregator_vars>>

SpecAstar == InitAstar /\ [][CallAstar]_vars

\* The cells one step from a cell of the set.
StepFrom(cells) ==
    UNION {{<<c[1] + 1, c[2]>>, <<c[1] - 1, c[2]>>, <<c[1], c[2] + 1>>, <<c[1], c[2] - 1>>} :
             c \in cells}

\* Breadth-first search: the number of steps from the frontier (at d steps
\* from the start) to the goal through free cells, -1 when there is no way.
RECURSIVE BreadthFirst(_, _, _, _, _)
BreadthFirst(frontier, seen, goal, blk, d) ==
    IF goal \in frontier THEN d
    ELSE IF frontier = {} THEN -1
    ELSE LET next == {c \in StepFrom(frontier) : InGrid(c) /\ c \notin blk /\ c \notin seen}
         IN  BreadthFirst(next, seen \cup next, goal, blk, d + 1)

ShortestDistance(start, goal, blk) == BreadthFirst({start}, {start}, goal, blk, 0)

\* The list is a walk from start to goal through free cells of the grid.
IsWalk(path, start, goal, blk) ==
    /\ Len(path) >= 1
    /\ path[1] = start
    /\ path[Len(path)] = goal
    /\ \A i \in 1..Len(path) : InGrid(path[i]) /\ path[i] \notin blk
    /\ \A i \in 1..(Len(path) - 1) :
           Abs(path[i][1] - path[i + 1][1]) + Abs(path[i][2] - path[i + 1][2]) = 1

\* C26: with start not blocked, astar returns [start] when start = goal, the
\* empty list when the goal is blocked or cannot be reached through free
\* 4-connected cells, and otherwise a walk from start to goal through free
\* cells of the grid whose length is the breadth-first distance plus one.
C26_AstarShortest ==
    search.called =>
        LET distance == ShortestDistance(search.start, search.goal, search.blocked)
        IN  IF search.start = search.goal THEN search.path = <<search.start>>
            ELSE IF search.goal \in search.blocked \/ distance = -1 THEN search.path = <<>>
            ELSE /\ IsWalk(search.path, search.start, search.goal, search.blocked)
                 /\ Len(search.path) = distance + 1

\* C26 witness: astar has returned a path that goes round obstacles, longer
\* than the Manhattan distance of its ends.
C26_Witness ==
    /\ search.called
    /\ Len(search.path) > Abs(search.start[1] - search.goal[1])
                            + Abs(search.start[2] - search.goal[2]) + 1
    /\ search.path[Len(search.path)] = search.goal

(***************************************************************************)
(* The engine under continued ticking.                                     *)
(***************************************************************************)
\* The next phase of simulation_loop: under Spec the steps that move phase on
\* are the five phase actions, each enabled whenever it is its turn.
LoopStep ==
    \/ phase = 0 /\ tick_count < MaxTicks /\ phase' = 1
    \/ phase # 0 /\ phase' = (phase + 1) % 5

\* simulation_loop runs tick() once per interval for as long as the process
\* lives: the phase that is due is run.
FairSpec == Spec /\ WF_phase(LoopStep)

\* Robot r is under way for mission m.
Travelling(r, m) == robots[r].mission_id = m /\ robots[r].status = "moving"

\* Mission m is active and no robot is under way for it.
Abandoned(m) == missions[m].status = "active" /\ \A r \in RobotIds : ~Travelling(r, m)

\* No phase of a tick takes a mission out of this state: the robot that holds
\* the mission is on a station, charging or idle, and the next mission it is
\* given overwrites its mission_id.
AbandonedStays ==
    [][\A m \in MissionIds : (Abandoned(m) /\ TickStep) => Abandoned(m)']_vars

DecideRequest ==
    /\ decide.pc = "none"
    /\ decide' = [decide EXCEPT !.pc = "check"]
    /\ UNCHANGED <<engine_vars, engine_response, search, current_state,
                   latest_simulator_metrics, state_lock, poller, streams, state_response,
                   missions_response>>

\* if not current_state.robots: raise HTTPException(400)
DecideCheck ==
    /\ decide.pc = "check"
    /\ decide' = IF current_state.robots = <<>>
                 THEN [decide EXCEPT !.pc = "rejected"]
                 ELSE [decide EXCEPT !.pc = "forward", !.checked = current_state]
    /\ UNCHANGED <<engine_vars, engine_response, search, current_state,
                   latest_simulator_metrics, state_lock, poller, streams, state_response,
                   missions_response>>

\* decision = make_decision(current_state): the call goes out.
DecideForward ==
    /\ decide.pc = "forward"
    /\ decide' = [decide EXCEPT !.pc = "advising", !.forwarded = current_state]
    /\ UNCHANGED <<engine_vars, engine_response, search, current_state,
                   latest_simulator_metrics, state_lock, poller, streams, state_response,
                   missions_response>>

\* The call returns a decision, or None (no API key, or any error of the call).
DecideAdvised ==
    /\ decide.pc = "advising"
    /\ \E pc \in {"log", "failed"} : decide' = [decide EXCEPT !.pc = pc]
    /\ UNCHANGED <<engine_vars, engine_response, search, current_state,
                   latest_simulator_metrics, state_lock, poller, streams, state_response,
                   missions_response>>

\* log_entry = {"step": current_state.step, "decision": ...}
DecideLog ==
    /\ decide.pc = "log"
    /\ decide' = [decide EXCEPT !.pc = "done",
                                !.logged = [written |-> TRUE, step |-> current_state.step]]
    /\ UNCHANGED <<engine_vars, engine_response, search, current_state,
                   latest_simulator_metrics, state_lock, poller, streams, state_response,
                   missions_response>>

\* The poller and POST /update beside one request of POST /ai/decide.
NextDecide ==
    \/ FetchEngineState
    \/ FetchFails
    \/ PollerAcquire
    \/ PollerPublish
    \/ PollerWake
    \/ update_simulation_state
    \/ DecideRequest
    \/ DecideCheck
    \/ DecideForward
    \/ DecideAdvised
    \/ DecideLog

SpecDecide == InitAggregator /\ [][NextDecide]_vars

\* C29: the step written to the decision log is the step of the snapshot that
\* was forwarded to the advisory model, which is the snapshot that passed the
\* no-robots check, also when the poller or POST /update replaces the
\* published snapshot while the advisory call is in flight.
C29_LoggedStepIsForwardedStep ==
    decide.logged.written =>
        /\ decide.forwarded = decide.checked
        /\ decide.logged.step = decide.forwarded.step

(***************************************************************************)
(* The poller in front of an engine at rest: the state of the engine is     *)
(* drawn from the states below and no tick runs while the poller reads it.  *)
(***************************************************************************)
\* Robot 1, by status: idle, under way for mission 1, charging on a station
\* with mission 1 still its own, charging without a mission, dead.
PolledRobots == {
    NewRobot(<<0, 7>>),
    [NewRobot(<<49, 7>>) EXCEPT !.status = "moving", !.mission_id = 1, !.battery = 64,
                                !.path = << <<49, 8>> >>, !.total_distance_traveled = 18],
    [NewRobot(<<25, 45>>) EXCEPT !.status = "charging", !.mission_id = 1, !.battery = 96,
                                 !.charge_destination = <<25, 45>>,
                                 !.total_distance_traveled = 7],
    [NewRobot(<<5, 5>>) EXCEPT !.status = "charging", !.battery = 30,
                               !.charge_destination = <<5, 5>>,
                               !.total_distance_traveled = 45],
    [NewRobot(<<0, 7>>) EXCEPT !.status = "dead", !.battery = 18,
                               !.total_distance_traveled = 41] }

\* A mission of robot r, by status.
PolledMissions(m, r) == {
    NewMission(PriorityOf(m), <<12, 30 + m>>),
    [NewMission(PriorityOf(m), <<12, 30 + m>>) EXCEPT
        !.status = "active", !.assigned_robot = r, !.start_time = 1],
    [NewMission(PriorityOf(m), <<30 + m, 12>>) EXCEPT
        !.status = "completed", !.assigned_robot = r, !.start_time = 1,
        !.completion_time = 9] }

\* The robot that holds a mission is the robot the mission is assigned to.
HeldMissionIsAssigned(rs, ms) ==
    \A r \in DOMAIN rs :
        rs[r].mission_id # None =>
            /\ ms[rs[r].mission_id].status = "active"
            /\ ms[rs[r].mission_id].assigned_robot = r

InitConvert ==
    /\ blocked = AggregatorObstacles
    /\ \E first \in PolledRobots :
           robots = [r \in RobotIds |->
                        IF r = 1 THEN first ELSE NewRobot(AggregatorRobotPlacement[r])]
    /\ \E high \in PolledMissions(1, 1), medium \in PolledMissions(6, 2),
          low \in PolledMissions(11, 5), last \in PolledMissions(15, 5) :
           missions = [m \in MissionIds |->
                          CASE m = 1 -> high
                            [] m = 6 -> medium
                            [] m = 11 -> low
                            [] m = 15 -> last
                            [] OTHER -> NewMission(PriorityOf(m), AggregatorMissionPlacement[m])]
    /\ HeldMissionIsAssigned(robots, missions)
    /\ completed_times = <<>>
    /\ tick_count = MaxTicks
    /\ phase = 0
    /\ first_start = [m \in MissionIds |-> None]
    /\ moved_at_two = {}
    /\ AggregatorInit

\* GET /api/v1/missions
get_missions ==
    /\ state_lock = Unlocked
    /\ missions_response' = [served |-> TRUE, body |-> current_state.active_missions]
    /\ UNCHANGED <<engine_vars, engine_response, search, current_state,
                   latest_simulator_metrics, state_lock, poller, streams, state_response,
                   decide>>

NextConvert ==
    \/ FetchEngineState
    \/ PollerAcquire
    \/ PollerPublish
    \/ PollerWake
    \/ get_missions

SpecConvert == InitConvert /\ [][NextConvert]_vars

(***************************************************************************)
(* Properties of the conversion.                                           *)
(***************************************************************************)
EngineRobotStatuses == {"idle", "moving", "charging", "dead"}
EngineMissionStatuses == {"pending", "active", "completed"}
EnginePriorities == {"high", "medium", "low"}

\* The inverses of the string and case maps.
IdOf(text) == CHOOSE n \in RobotIds \cup MissionIds : ToString(n) = text
OptionalIdOf(text) == IF text = NoneStr THEN None ELSE IdOf(text)
RobotStatusOf(ui) == CHOOSE status \in EngineRobotStatuses : _status_to_ui(status) = ui
MissionStatusOf(ui) == CHOOSE status \in EngineMissionStatuses : _mission_status_to_ui(status) = ui
PriorityOfUi(ui) == CHOOSE priority \in EnginePriorities : _priority_to_ui(priority) = ui

Range(s) == {s[i] : i \in DOMAIN s}

\* The listed fields of an engine snapshot.
ListedFields(payload) ==
    [robots |-> [i \in DOMAIN payload.robots |->
                    [id |-> payload.robots[i].id, x |-> payload.robots[i].x,
                     y |-> payload.robots[i].y, status |-> payload.robots[i].status,
                     mission_id |-> payload.robots[i].mission_id]],
     missions |-> {[id |-> m.id, priority |-> m.priority, x |-> m.target.x, y |-> m.target.y,
                    status |-> m.status, assigned_robot |-> m.assigned_robot] :
                       m \in Range(payload.missions)}]

\* The same fields, recovered from a converted state.
RecoveredFields(state) ==
    [robots |-> [i \in DOMAIN state.robots |->
                    [id |-> IdOf(state.robots[i].id), x |-> state.robots[i].position[1],
                     y |-> state.robots[i].position[2],
                     status |-> RobotStatusOf(state.robots[i].status),
                     mission_id |-> OptionalIdOf(state.robots[i].current_mission)]],
     missions |-> {[id |-> IdOf(m.id), priority |-> PriorityOfUi(m.priority),
                    x |-> m.target[1], y |-> m.target[2],
                    status |-> MissionStatusOf(m.status),
                    assigned_robot |-> OptionalIdOf(m.assigned_robot)] :
                       m \in Range(state.active_missions) \cup Range(state.completed_missions)}]

\* The poller holds a converted payload that it has not published yet.
ConversionInHand == poller.pc \in {"acquire", "locked"}

\* C21: the conversion of an engine snapshot loses none of the listed fields:
\* robot ids, positions, statuses and missions, mission ids, priorities,
\* targets, statuses and assigned robots are recovered from the converted
\* state by inverting the string and case maps, so two snapshots that differ
\* in one of them convert to different states.
C21_ConversionKeepsFields ==
    /\ ConversionInHand => RecoveredFields(poller.converted) = ListedFields(engine_response)
    /\ current_state.step >= 1 => RecoveredFields(current_state) = ListedFields(engine_response)

\* C21 witness: the published state is the conversion of a snapshot with a
\* charging robot that holds an active mission and with a completed mission.
C21_Witness ==
    /\ current_state.step >= 1
    /\ \E i \in DOMAIN current_state.robots :
           /\ current_state.robots[i].status = "CHARGING"
           /\ current_state.robots[i].current_mission = "1"
    /\ \E i \in DOMAIN current_state.completed_missions :
           /\ current_state.completed_missions[i].id = "15"
           /\ current_state.completed_missions[i].assigned_robot = "5"
    /\ engine_response.robots[1].status = "charging"
    /\ engine_response.missions[15].status = "completed"

\* The positions of the list at which the mission with the given id stands.
PlacesOf(id, list) == {j \in DOMAIN list : list[j].id = id}

\* Each mission of the payload stands once in the two lists of the state, in
\* completed_missions exactly when the engine has it completed, and the lists
\* hold nothing else.
SplitOf(state, payload) ==
    /\ \A i \in DOMAIN payload.missions :
           LET id == ToString(payload.missions[i].id)
               active_places == PlacesOf(id, state.active_missions)
               completed_places == PlacesOf(id, state.completed_missions)
           IN  /\ Cardinality(active_places) + Cardinality(completed_places) = 1
               /\ completed_places # {} <=> payload.missions[i].status = "completed"
               /\ active_places # {} <=>
                      payload.missions[i].status \in {"pending", "active"}
    /\ Len(state.active_missions) + Len(state.completed_missions) = Len(payload.missions)

C27_Split ==
    /\ ConversionInHand => SplitOf(poller.converted, engine_response)
    /\ current_state.step >= 1 => SplitOf(current_state, engine_response)

C27_GetMissionsStep ==
    missions_response' # missions_response =>
        /\ missions_response'.served
        /\ missions_response'.body = current_state.active_missions
        /\ current_state' = current_state

\* C27: the conversion puts each mission of the engine payload in exactly one
\* of the two lists, in completed_missions if and only if its engine status
\* is completed and in active_missions otherwise, pending or active; none is
\* dropped or duplicated; GET /missions returns the active_missions list of
\* the published state.
C27_MissionsSplit == []C27_Split /\ [][C27_GetMissionsStep]_vars

\* C27 witness: GET /missions has returned the active list of a published
\* state that holds a pending and an active mission, while the completed
\* list of that state holds a completed one.
C27_Witness ==
    /\ current_state.step >= 1
    /\ missions_response.served
    /\ missions_response.body = current_state.active_missions
    /\ \E i, j \in DOMAIN missions_response.body :
           /\ missions_response.body[i].status = "PENDING"
           /\ missions_response.body[j].status = "IN_PROGRESS"
    /\ \E i \in DOMAIN current_state.completed_missions :
           current_state.completed_missions[i].status = "COMPLETED"
    /\ \E i, j \in DOMAIN engine_response.missions :
           /\ engine_response.missions[i].status = "active"
           /\ engine_response.missions[j].status = "completed"

====
